---- MODULE Spec2Model ----
(***************************************************************************)
(* Streaming chat relay, transcript persistence and the owner-scoped       *)
(* session endpoints of the chatbot, as a state machine.                   *)
(*                                                                         *)
(* Text (message content, titles, fragments, search strings) is a sequence *)
(* of one-character strings, so that concatenation, trim, slice and        *)
(* case-insensitive search are computed as the code computes them.         *)
(* An absent (undefined) text or identifier is the empty value, an absent  *)
(* number is Undefined.                                                    *)
(***************************************************************************)
EXTENDS Integers, Sequences, FiniteSets, TLC

VARIABLES chats, users, nextId, now, req, resp, ui, db, reg

vars == <<chats, users, nextId, now, req, resp, ui, db, reg>>

-----------------------------------------------------------------------------
(* Bounds of the model                                                     *)

MaxClock == 1
MaxInserts == 2
MaxStored == 3
MaxFrags == 2
Slots == {1, 2}

(* Program constants                                                       *)

TitleMax == 60
DefaultPage == 1
DefaultPageSize == 20
MinPageSize == 5
MaxPageSize == 50
Undefined == -1

-----------------------------------------------------------------------------
(* Text helpers                                                            *)

Min(a, b) == IF a < b THEN a ELSE b
Max(a, b) == IF a > b THEN a ELSE b

IsSpace(c) == c \in {" ", "\t", "\n"}

RECURSIVE TrimStart(_)
TrimStart(s) ==
  IF s = <<>> THEN <<>>
  ELSE IF IsSpace(Head(s)) THEN TrimStart(Tail(s)) ELSE s

RECURSIVE TrimEnd(_)
TrimEnd(s) ==
  IF s = <<>> THEN <<>>
  ELSE IF IsSpace(s[Len(s)]) THEN TrimEnd(SubSeq(s, 1, Len(s) - 1)) ELSE s

Trim(s) == TrimEnd(TrimStart(s))

Slice(s, n) == SubSeq(s, 1, Min(Len(s), n))

Lower(c) ==
  CASE c = "H" -> "h"
    [] c = "S" -> "s"
    [] c = "N" -> "n"
    [] c = "C" -> "c"
    [] c = "T" -> "t"
    [] OTHER -> c

LowerText(s) == [i \in 1..Len(s) |-> Lower(s[i])]

Contains(s, q) ==
  \E i \in 0..(Len(s) - Len(q)) : SubSeq(s, i + 1, i + Len(q)) = q

(* title: { $regex: escaped q, $options: 'i' }                             *)
RegexMatchI(title, q) == Contains(LowerText(title), LowerText(q))

NewChat == <<"N", "e", "w", " ", "C", "h", "a", "t">>
StreamErrorText == <<"s", "t", "r", "e", "a", "m", " ", "e", "r", "r", "o", "r">>

-----------------------------------------------------------------------------
(* Messages and identities                                                 *)

Msg(r, c) == [role |-> r, content |-> c]

Sys == Msg("system", <<"S">>)
U1 == Msg("user", <<"h", "i">>)
U2 == Msg("user", <<"y", "o">>)
UBlank == Msg("user", <<" ">>)
A1 == Msg("assistant", <<"o", "k">>)

NoSession == [present |-> FALSE, id |-> "", email |-> ""]
AuthSession(u) == [present |-> TRUE, id |-> u, email |-> ""]
Users == {"u1", "u2"}
AuthSessions == {AuthSession(u) : u \in Users}
Sessions == {NoSession} \cup AuthSessions

(* route.ts: session?.user?.id || session?.user?.email || undefined        *)
ChatUserId(s) ==
  IF ~s.present THEN ""
  ELSE IF s.id # "" THEN s.id
  ELSE s.email

(* sessions routes: session.user.id || session.user?.email || fallback     *)
SessionsUserId(s, fallback) ==
  IF s.id # "" THEN s.id
  ELSE IF s.email # "" THEN s.email
  ELSE fallback

-----------------------------------------------------------------------------
(* The chats collection: a sequence of documents in insertion order        *)

(* a filter on the session id alone                                        *)
Matches_SessionOnly(d, sid, uid) == d.sessionId = sid

Matches(d, sid, uid) == d.sessionId = sid /\ d.userId = uid

MatchIdx(col, sid, uid) == {i \in 1..Len(col) : Matches(col[i], sid, uid)}

FirstIdx(S) == CHOOSE i \in S : \A j \in S : i <= j

(* findOne({sessionId, userId}) found a document                           *)
FindOne(col, sid, uid) == MatchIdx(col, sid, uid) # {}

InsertOne(col, id, d) ==
  Append(col, [d EXCEPT !._id = id])

(* updateOne(filter, update): the first match is replaced by its updated   *)
(* version, taken from upd, the update applied to each document            *)
UpdateFirst(col, sid, uid, upd) ==
  IF MatchIdx(col, sid, uid) = {} THEN col
  ELSE LET k == FirstIdx(MatchIdx(col, sid, uid))
       IN [col EXCEPT ![k] = upd[k]]

RemoveAt(col, k) == SubSeq(col, 1, k - 1) \o SubSeq(col, k + 1, Len(col))

DeleteOne(col, sid, uid) ==
  IF MatchIdx(col, sid, uid) = {} THEN col
  ELSE RemoveAt(col, FirstIdx(MatchIdx(col, sid, uid)))

-----------------------------------------------------------------------------
(* POST /api/chat: one request per slot                                    *)

Env(t, d, n, e) == [type |-> t, data |-> d, tokens |-> n, elapsedMs |-> e]
TokenEnv(text) == Env("token", text, 0, 0)
MetaEnv(n, e) == Env("meta", <<>>, n, e)
ErrorEnv(msg) == Env("error", msg, 0, 0)
DoneEnv == Env("done", <<>>, 0, 0)

(* the token envelopes of a sequence of fragments: empty text emits none    *)
RECURSIVE TokenEnvs(_)
TokenEnvs(log) ==
  IF log = <<>> THEN <<>>
  ELSE (IF Head(log) # <<>> THEN <<TokenEnv(Head(log))>> ELSE <<>>)
       \o TokenEnvs(Tail(log))

IdleReq ==
  [pc |-> "idle", status |-> 0, json |-> TRUE, isArray |-> TRUE,
   messages |-> <<>>, model |-> "", temperature |-> Undefined,
   topP |-> Undefined, maxTokens |-> Undefined, sessionId |-> "",
   userId |-> "", existing |-> FALSE, nowIso |-> 0, postIso |-> 0,
   started |-> 0, out |-> <<>>, closed |-> FALSE,
   tokenCount |-> 0, finalText |-> <<>>,
   authCalls |-> 0, storeOps |-> 0, storeErrs |-> 0,
   upCalls |-> 0, upLog |-> <<>>, upEnd |-> "", upErr |-> <<>>,
   cancelled |-> FALSE, clientDone |-> FALSE]

Persisting(q) == q.sessionId # "" /\ q.userId # ""

(* messages.find(m => m.role === 'user' && m.content.trim())               *)
FirstUserIdx(msgs) ==
  {i \in 1..Len(msgs) :
     /\ msgs[i].role = "user" /\ Trim(msgs[i].content) # <<>>
     /\ \A j \in 1..(i - 1) :
          ~(msgs[j].role = "user" /\ Trim(msgs[j].content) # <<>>)}

ChatTitle(msgs) ==
  IF FirstUserIdx(msgs) = {} THEN NewChat
  ELSE LET t == Slice(msgs[CHOOSE i \in FirstUserIdx(msgs) : TRUE].content, TitleMax)
       IN IF t # <<>> THEN t ELSE NewChat

(* [...messages].reverse().find(m => m.role === 'user')                    *)
LastUserIdx(msgs) ==
  {i \in 1..Len(msgs) :
     /\ msgs[i].role = "user"
     /\ \A j \in (i + 1)..Len(msgs) : msgs[j].role # "user"}

(* messages.find(m => m.role === 'user')                                   *)
HasUser(msgs) == \E i \in 1..Len(msgs) : msgs[i].role = "user"
FirstUser(msgs) ==
  msgs[CHOOSE i \in 1..Len(msgs) :
         /\ msgs[i].role = "user"
         /\ \A j \in 1..(i - 1) : msgs[j].role # "user"]

HasLastUser(msgs) == LastUserIdx(msgs) # {}
LastUser(msgs) == msgs[CHOOSE i \in LastUserIdx(msgs) : TRUE]

(* body = await req.json(); validation of messages and model              *)
Received(body) ==
  [IdleReq EXCEPT !.json = body.json,
                  !.isArray = body.isArray,
                  !.messages = body.messages,
                  !.model = body.model,
                  !.temperature = body.temperature,
                  !.topP = body.topP,
                  !.maxTokens = body.maxTokens,
                  !.sessionId = body.sessionId]

(* the model check left out of the validation                              *)
ChatPost_NoModelCheck(r, body) ==
  /\ req[r].pc = "idle"
  /\ IF ~body.json \/ ~body.isArray
       THEN req' = [req EXCEPT ![r] =
                      [Received(body) EXCEPT !.pc = "done", !.status = 400]]
       ELSE req' = [req EXCEPT ![r] =
                      [Received(body) EXCEPT !.pc = "auth", !.started = now]]
  /\ UNCHANGED <<users, chats, nextId, now, resp>>

ChatPost(r, body) ==
  /\ req[r].pc = "idle"
  /\ IF ~body.json \/ ~body.isArray \/ body.model = ""
       THEN req' = [req EXCEPT ![r] =
                      [Received(body) EXCEPT !.pc = "done", !.status = 400]]
       ELSE req' = [req EXCEPT ![r] =
                      [Received(body) EXCEPT !.pc = "auth", !.started = now]]
  /\ UNCHANGED <<users, chats, nextId, now, resp>>

(* session = await getServerSession(authOptions)                           *)
ChatAuth(r, session) ==
  /\ req[r].pc = "auth"
  /\ LET uid == ChatUserId(session)
     IN req' = [req EXCEPT ![r].userId = uid,
                           ![r].authCalls = @ + 1,
                           ![r].pc = IF req[r].sessionId # "" /\ uid # ""
                                       THEN "pre_find" ELSE "invoke"]
  /\ UNCHANGED <<users, chats, nextId, now, resp>>

(* the pre-step without its try/catch: a store failure reaches the outer   *)
(* catch and becomes a 500                                                 *)
PreFind_Throws(r, ok) ==
  /\ req[r].pc = "pre_find"
  /\ IF ok
       THEN LET ex == FindOne(chats, req[r].sessionId, req[r].userId)
            IN req' = [req EXCEPT ![r].existing = ex,
                                  ![r].nowIso = now,
                                  ![r].storeOps = @ + 1,
                                  ![r].pc = IF ~ex THEN "pre_insert"
                                            ELSE IF HasLastUser(req[r].messages)
                                              THEN "pre_update" ELSE "invoke"]
       ELSE req' = [req EXCEPT ![r].storeOps = @ + 1,
                               ![r].storeErrs = @ + 1,
                               ![r].status = 500,
                               ![r].pc = "done"]
  /\ UNCHANGED <<users, chats, nextId, now, resp>>

(* col = await chatsCollection(); existing = await col.findOne(...)        *)
PreFind(r, ok) ==
  /\ req[r].pc = "pre_find"
  /\ IF ok
       THEN LET ex == FindOne(chats, req[r].sessionId, req[r].userId)
            IN req' = [req EXCEPT ![r].existing = ex,
                                  ![r].nowIso = now,
                                  ![r].storeOps = @ + 1,
                                  ![r].pc = IF ~ex THEN "pre_insert"
                                            ELSE IF HasLastUser(req[r].messages)
                                              THEN "pre_update" ELSE "invoke"]
       ELSE req' = [req EXCEPT ![r].storeOps = @ + 1,
                               ![r].storeErrs = @ + 1,
                               ![r].pc = "invoke"]
  /\ UNCHANGED <<users, chats, nextId, now, resp>>

NewChatDoc(q) ==
  [_id |-> 0, sessionId |-> q.sessionId, userId |-> q.userId,
   title |-> ChatTitle(q.messages), messages |-> q.messages,
   model |-> q.model, temperature |-> q.temperature, topP |-> q.topP,
   maxTokens |-> q.maxTokens, createdAt |-> q.nowIso, updatedAt |-> q.nowIso]

(* await col.insertOne({...})                                              *)
PreInsert(r, ok) ==
  /\ req[r].pc = "pre_insert"
  /\ ok => nextId <= MaxInserts
  /\ IF ok
       THEN /\ chats' = InsertOne(chats, nextId, NewChatDoc(req[r]))
            /\ nextId' = nextId + 1
            /\ req' = [req EXCEPT ![r].storeOps = @ + 1, ![r].pc = "invoke"]
       ELSE /\ req' = [req EXCEPT ![r].storeOps = @ + 1,
                                  ![r].storeErrs = @ + 1,
                                  ![r].pc = "invoke"]
            /\ UNCHANGED <<chats, nextId>>
  /\ UNCHANGED <<users, now, resp>>

(* the stored transcript replaced by the request's messages                *)
PushUser_Replace(q, d) ==
  [d EXCEPT !.messages = q.messages,
            !.updatedAt = q.nowIso,
            !.model = q.model,
            !.temperature = q.temperature,
            !.topP = q.topP,
            !.maxTokens = q.maxTokens]

PushUser(q, d) ==
  [d EXCEPT !.messages = Append(@, LastUser(q.messages)),
            !.updatedAt = q.nowIso,
            !.model = q.model,
            !.temperature = q.temperature,
            !.topP = q.topP,
            !.maxTokens = q.maxTokens]

CanPush(col, sid, uid) ==
  \A i \in MatchIdx(col, sid, uid) : Len(col[i].messages) < MaxStored

(* await col.updateOne({sessionId, userId}, {$push: lastUser, $set: ...})  *)
PreUpdate(r, ok) ==
  /\ req[r].pc = "pre_update"
  /\ IF ok
       THEN /\ chats' = UpdateFirst(chats, req[r].sessionId, req[r].userId,
                                    [k \in 1..Len(chats) |-> PushUser(req[r], chats[k])])
            /\ req' = [req EXCEPT ![r].storeOps = @ + 1, ![r].pc = "invoke"]
       ELSE /\ req' = [req EXCEPT ![r].storeOps = @ + 1,
                                  ![r].storeErrs = @ + 1,
                                  ![r].pc = "invoke"]
            /\ UNCHANGED chats
  /\ UNCHANGED <<users, nextId, now, resp>>

(* an invocation failure reported in-band instead of as a 500              *)
Invoke_ErrorInBand(r, ok) ==
  /\ req[r].pc = "invoke"
  /\ req' = [req EXCEPT ![r].upCalls = @ + 1,
                        ![r].status = 200,
                        ![r].out = IF ok THEN @ ELSE Append(@, ErrorEnv(StreamErrorText)),
                        ![r].closed = ~ok,
                        ![r].pc = IF ok THEN "stream" ELSE "done"]
  /\ UNCHANGED <<users, chats, nextId, now, resp>>

(* stream = await streamGemini({...}); new Response(readable) or 500       *)
Invoke(r, ok) ==
  /\ req[r].pc = "invoke"
  /\ req' = [req EXCEPT ![r].upCalls = @ + 1,
                        ![r].status = IF ok THEN 200 ELSE 500,
                        ![r].pc = IF ok THEN "stream" ELSE "done"]
  /\ UNCHANGED <<users, chats, nextId, now, resp>>

(* the count incremented outside the if (text) test                        *)
StreamChunk_CountsEmpty(r, text) ==
  /\ req[r].pc = "stream"
  /\ Len(req[r].upLog) < MaxFrags
  /\ req' = [req EXCEPT
       ![r].upLog = Append(@, text),
       ![r].finalText = IF text # <<>> THEN @ \o text ELSE @,
       ![r].tokenCount = @ + 1,
       ![r].out = IF text # <<>> THEN Append(@, TokenEnv(text)) ELSE @]
  /\ UNCHANGED <<users, chats, nextId, now, resp>>

(* for await (const chunk of stream.stream) { text = chunk.text(); ... }   *)
StreamChunk(r, text) ==
  /\ req[r].pc = "stream"
  /\ Len(req[r].upLog) < MaxFrags
  /\ req' = [req EXCEPT
       ![r].upLog = Append(@, text),
       ![r].finalText = IF text # <<>> THEN @ \o text ELSE @,
       ![r].tokenCount = IF text # <<>> THEN @ + 1 ELSE @,
       ![r].out = IF text # <<>> THEN Append(@, TokenEnv(text)) ELSE @]
  /\ UNCHANGED <<users, chats, nextId, now, resp>>

(* the output closed right after the sentinel, before the post-step        *)
StreamEnd_ClosesFirst(r) ==
  /\ req[r].pc = "stream"
  /\ req' = [req EXCEPT
       ![r].upEnd = "end",
       ![r].out = @ \o <<MetaEnv(req[r].tokenCount, now - req[r].started), DoneEnv>>,
       ![r].closed = TRUE,
       ![r].pc = IF Persisting(req[r]) THEN "post_conn" ELSE "done"]
  /\ UNCHANGED <<users, chats, nextId, now, resp>>

(* the upstream iterator is exhausted: meta, sentinel                      *)
StreamEnd(r) ==
  /\ req[r].pc = "stream"
  /\ req' = [req EXCEPT
       ![r].upEnd = "end",
       ![r].out = @ \o <<MetaEnv(req[r].tokenCount, now - req[r].started), DoneEnv>>,
       ![r].closed = ~Persisting(req[r]),
       ![r].pc = IF Persisting(req[r]) THEN "post_conn" ELSE "done"]
  /\ UNCHANGED <<users, chats, nextId, now, resp>>

(* the sentinel enqueued in the finally block, after the error envelope    *)
StreamFail_ThenSentinel(r, msg) ==
  /\ req[r].pc = "stream"
  /\ req' = [req EXCEPT
       ![r].upEnd = "error",
       ![r].upErr = msg,
       ![r].out = @ \o <<ErrorEnv(IF msg # <<>> THEN msg ELSE StreamErrorText), DoneEnv>>,
       ![r].closed = TRUE,
       ![r].pc = "done"]
  /\ UNCHANGED <<users, chats, nextId, now, resp>>

(* the upstream iterator (or chunk.text()) throws: catch, finally close    *)
StreamFail(r, msg) ==
  /\ req[r].pc = "stream"
  /\ req' = [req EXCEPT
       ![r].upEnd = "error",
       ![r].upErr = msg,
       ![r].out = Append(@, ErrorEnv(IF msg # <<>> THEN msg ELSE StreamErrorText)),
       ![r].closed = TRUE,
       ![r].pc = "done"]
  /\ UNCHANGED <<users, chats, nextId, now, resp>>

(* an abort that flushes the partially streamed reply to the store         *)
ClientAbort_FlushesPartial(r) ==
  /\ req[r].pc \in {"stream", "post_conn", "post_write"}
  /\ ~req[r].cancelled
  /\ IF req[r].pc = "stream"
       THEN req' = [req EXCEPT ![r].cancelled = TRUE,
                               ![r].upEnd = "abort",
                               ![r].pc = IF Persisting(req[r])
                                           THEN "post_conn" ELSE "done"]
       ELSE req' = [req EXCEPT ![r].cancelled = TRUE]
  /\ UNCHANGED <<users, chats, nextId, now, resp>>

(* the caller aborts the connection and the ReadableStream is cancelled.   *)
(* Inside the loop the next controller.enqueue throws, the enqueue of the  *)
(* catch block and the close of the finally block throw as well: nothing   *)
(* more is enqueued and the post-step is skipped. Once the sentinel is     *)
(* enqueued no enqueue is left and the post-step runs on.                  *)
ClientAbort(r) ==
  /\ req[r].pc \in {"stream", "post_conn", "post_write"}
  /\ ~req[r].cancelled
  /\ IF req[r].pc = "stream"
       THEN req' = [req EXCEPT ![r].cancelled = TRUE,
                               ![r].upEnd = "abort",
                               ![r].pc = "done"]
       ELSE req' = [req EXCEPT ![r].cancelled = TRUE]
  /\ UNCHANGED <<users, chats, nextId, now, resp>>

(* post-step: col = await chatsCollection()                                *)
PostConn(r, ok) ==
  /\ req[r].pc = "post_conn"
  /\ IF ok
       THEN req' = [req EXCEPT ![r].postIso = now, ![r].pc = "post_write"]
       ELSE req' = [req EXCEPT ![r].storeOps = @ + 1,
                               ![r].storeErrs = @ + 1,
                               ![r].closed = TRUE,
                               ![r].pc = "done"]
  /\ UNCHANGED <<users, chats, nextId, now, resp>>

(* the accumulator overwritten by each fragment instead of appended to     *)
PushAssistant_LastFragment(q, d) ==
  [d EXCEPT !.messages =
              Append(@, Msg("assistant",
                            IF q.out = <<>> THEN <<>>
                            ELSE LET toks == TokenEnvs(q.upLog)
                                 IN IF toks = <<>> THEN <<>> ELSE toks[Len(toks)].data)),
            !.updatedAt = q.postIso]

(* the transcript rewritten from the request's messages plus the reply     *)
(* ($set of the whole array) instead of one $push                          *)
PushAssistant_SetFromRequest(q, d) ==
  [d EXCEPT !.messages = Append(q.messages, Msg("assistant", q.finalText)),
            !.updatedAt = q.postIso]

PushAssistant(q, d) ==
  [d EXCEPT !.messages = Append(@, Msg("assistant", q.finalText)),
            !.updatedAt = q.postIso]

(* the post-step's update issued with upsert: true                         *)
PostWrite_Upsert(r, ok) ==
  /\ req[r].pc = "post_write"
  /\ IF ok
       THEN /\ chats' =
                 IF FindOne(chats, req[r].sessionId, req[r].userId)
                   THEN UpdateFirst(chats, req[r].sessionId, req[r].userId,
                          [k \in 1..Len(chats) |-> PushAssistant(req[r], chats[k])])
                   ELSE InsertOne(chats, nextId,
                          [NewChatDoc(req[r]) EXCEPT
                             !.messages = <<Msg("assistant", req[r].finalText)>>,
                             !.updatedAt = req[r].postIso])
            /\ req' = [req EXCEPT ![r].storeOps = @ + 1,
                                  ![r].closed = TRUE, ![r].pc = "done"]
       ELSE /\ req' = [req EXCEPT ![r].storeOps = @ + 1,
                                  ![r].storeErrs = @ + 1,
                                  ![r].closed = TRUE, ![r].pc = "done"]
            /\ UNCHANGED chats
  /\ UNCHANGED <<users, nextId, now, resp>>

(* await col.updateOne({sessionId, userId}, {$push: assistant, $set: updatedAt}, *)
(* {upsert: false}); finally controller.close()                            *)
PostWrite(r, ok) ==
  /\ req[r].pc = "post_write"
  /\ IF ok
       THEN /\ chats' = UpdateFirst(chats, req[r].sessionId, req[r].userId,
                                    [k \in 1..Len(chats) |-> PushAssistant(req[r], chats[k])])
            /\ req' = [req EXCEPT ![r].storeOps = @ + 1,
                                  ![r].closed = TRUE, ![r].pc = "done"]
       ELSE /\ req' = [req EXCEPT ![r].storeOps = @ + 1,
                                  ![r].storeErrs = @ + 1,
                                  ![r].closed = TRUE, ![r].pc = "done"]
            /\ UNCHANGED chats
  /\ UNCHANGED <<users, nextId, now, resp>>

(* the client reads the [DONE] line from the response body: it commits the *)
(* assistant message locally and calls refreshSessions()                   *)
ClientDone(r) ==
  /\ req[r].status = 200
  /\ ~req[r].clientDone
  /\ \E i \in 1..Len(req[r].out) : req[r].out[i] = DoneEnv
  /\ req' = [req EXCEPT ![r].clientDone = TRUE]
  /\ UNCHANGED <<users, chats, nextId, now, resp>>

(* the response has been delivered; the slot serves the next request       *)
Recycle(r) ==
  /\ req[r].pc = "done"
  /\ req' = [req EXCEPT ![r] = IdleReq]
  /\ UNCHANGED <<users, chats, nextId, now, resp>>

(* Date.now() / new Date() advance                                         *)
Tick ==
  /\ now < MaxClock
  /\ now' = now + 1
  /\ UNCHANGED <<users, chats, nextId, req, resp>>

-----------------------------------------------------------------------------
(* JavaScript numbers of the listing endpoint: an integer or NaN           *)

NaN == [nan |-> TRUE, v |-> 0]
Num(n) == [nan |-> FALSE, v |-> n]

DigitVal(c) ==
  CASE c = "0" -> 0 [] c = "1" -> 1 [] c = "2" -> 2 [] c = "3" -> 3
    [] c = "4" -> 4 [] c = "5" -> 5 [] c = "6" -> 6 [] c = "7" -> 7
    [] c = "8" -> 8 [] c = "9" -> 9 [] OTHER -> -1

RECURSIVE Digits(_, _, _)
Digits(s, acc, seen) ==
  IF s = <<>> \/ DigitVal(Head(s)) < 0
    THEN IF seen THEN Num(acc) ELSE NaN
    ELSE Digits(Tail(s), 10 * acc + DigitVal(Head(s)), TRUE)

(* parseInt(text, 10)                                                      *)
ParseInt(text) ==
  LET t == TrimStart(text)
  IN IF t # <<>> /\ Head(t) = "-"
       THEN LET d == Digits(Tail(t), 0, FALSE)
            IN IF d.nan THEN NaN ELSE Num(0 - d.v)
       ELSE IF t # <<>> /\ Head(t) = "+" THEN Digits(Tail(t), 0, FALSE)
       ELSE Digits(t, 0, FALSE)

(* Math.max(a, x), Math.min(a, x) with an integer a                        *)
MathMax(a, x) == IF x.nan THEN NaN ELSE Num(Max(a, x.v))
MathMin(a, x) == IF x.nan THEN NaN ELSE Num(Min(a, x.v))

(* searchParams.get(name): null when the parameter is absent               *)
Absent == [present |-> FALSE, text |-> <<>>]
Param(t) == [present |-> TRUE, text |-> t]

(* searchParams.get(name) || fallback                                      *)
OrDefault(p, fallback) == IF p.present /\ p.text # <<>> THEN p.text ELSE fallback

EffPage(p) == MathMax(DefaultPage, ParseInt(OrDefault(p, <<"1">>)))
EffPageSize(p) ==
  MathMin(MaxPageSize, MathMax(MinPageSize, ParseInt(OrDefault(p, <<"2", "0">>))))

CeilDiv(a, b) == (a + b - 1) \div b

(* Math.ceil(total / pageSize) || 1                                        *)
TotalPages(total, pageSize) ==
  IF pageSize.nan THEN Num(1)
  ELSE IF CeilDiv(total, pageSize.v) = 0 THEN Num(1)
  ELSE Num(CeilDiv(total, pageSize.v))

-----------------------------------------------------------------------------
(* /api/sessions and /api/sessions/[id]                                    *)

NoResp ==
  [op |-> "none", userId |-> "", status |-> 0, sid |-> "", items |-> <<>>,
   page |-> Num(0), pageSize |-> Num(0), total |-> 0, totalPages |-> Num(0),
   storeCalls |-> 0]

Reply(op, uid, status, sid) ==
  [NoResp EXCEPT !.op = op, !.userId = uid, !.status = status, !.sid = sid]

(* a response produced after chatsCollection() / usersCollection() and the *)
(* store call that follows it                                              *)
StoreReply(op, uid, status, sid) ==
  [Reply(op, uid, status, sid) EXCEPT !.storeCalls = 1]

(* what a response shows of a document, with the owner it was stored under *)
Item(d) == [_id |-> d._id, sessionId |-> d.sessionId, owner |-> d.userId]

(* a listing filter without the owner                                      *)
Filtered_AllOwners(col, uid, q) ==
  {i \in 1..Len(col) : q # <<>> => RegexMatchI(col[i].title, q)}

(* filter = { userId } plus title: { $regex, $options: 'i' } when q is set  *)
Filtered(col, uid, q) ==
  {i \in 1..Len(col) :
     /\ col[i].userId = uid
     /\ q # <<>> => RegexMatchI(col[i].title, q)}

(* .sort({ updatedAt: -1 }): every order of the matches with updatedAt     *)
(* non-increasing; documents with equal updatedAt come in any order        *)
Orders(col, S) ==
  {o \in [1..Cardinality(S) -> S] :
     /\ \A a, b \in 1..Cardinality(S) : a # b => o[a] # o[b]
     /\ \A a, b \in 1..Cardinality(S) :
          a < b => col[o[a]].updatedAt >= col[o[b]].updatedAt}

(* .skip(n).limit(m)                                                       *)
SkipLimit(o, n, m) == SubSeq(o, n + 1, Min(Len(o), n + m))

(* docs.filter(d => d.sessionId && d.title && d.createdAt && d.updatedAt && d.model) *)
Listable(d) == d.sessionId # "" /\ d.title # <<>> /\ d.model # ""

RECURSIVE ItemsOf(_, _)
ItemsOf(col, o) ==
  IF o = <<>> THEN <<>>
  ELSE (IF Listable(col[Head(o)]) THEN <<Item(col[Head(o)])>> ELSE <<>>)
       \o ItemsOf(col, Tail(o))

(* GET /api/sessions                                                       *)
ListSessions(session, pageP, pageSizeP, qP, ok) ==
  LET page == EffPage(pageP)
      pageSize == EffPageSize(pageSizeP)
      q == Trim(OrDefault(qP, <<>>))
      uid == SessionsUserId(session, "unknown")
  IN /\ IF ~session.present
          THEN resp' = Reply("list", "", 401, "")
          ELSE IF ~ok \/ page.nan \/ pageSize.nan
            THEN resp' = [StoreReply("list", uid, 500, "") EXCEPT
                            !.page = page, !.pageSize = pageSize]
            ELSE \E o \in Orders(chats, Filtered(chats, uid, q)) :
                   resp' = [StoreReply("list", uid, 200, "") EXCEPT
                     !.items = ItemsOf(chats,
                                 SkipLimit(o, (page.v - 1) * pageSize.v, pageSize.v)),
                     !.page = page,
                     !.pageSize = pageSize,
                     !.total = Cardinality(Filtered(chats, uid, q)),
                     !.totalPages =
                        TotalPages(Cardinality(Filtered(chats, uid, q)), pageSize)]
     /\ UNCHANGED <<users, chats, nextId, now, req>>

(* GET /api/sessions/[id]                                                  *)
FetchOne(session, id, ok) ==
  LET uid == SessionsUserId(session, "__")
  IN /\ IF id = "" THEN resp' = Reply("fetch", "", 400, id)
        ELSE IF ~session.present THEN resp' = Reply("fetch", "", 401, id)
        ELSE IF ~ok THEN resp' = StoreReply("fetch", uid, 500, id)
        ELSE IF ~FindOne(chats, id, uid) THEN resp' = StoreReply("fetch", uid, 404, id)
        ELSE resp' = [StoreReply("fetch", uid, 200, id) EXCEPT
                        !.items = <<Item(chats[FirstIdx(MatchIdx(chats, id, uid))])>>]
     /\ UNCHANGED <<users, chats, nextId, now, req>>

(* title || messages.find(m => m.role === 'user')?.content?.slice(0, 60) || 'New Chat' *)
CreateTitle(title, msgs) ==
  IF title # <<>> THEN title
  ELSE IF ~HasUser(msgs) THEN NewChat
  ELSE LET t == Slice(FirstUser(msgs).content, TitleMax)
       IN IF t # <<>> THEN t ELSE NewChat

(* POST /api/sessions                                                      *)
CreateSession(session, body, ok) ==
  LET uid == SessionsUserId(session, "unknown")
      sid == "g" \o ToString(nextId)
  IN /\ ok => nextId <= MaxInserts
     /\ IF ~body.json \/ body.model = ""
          THEN resp' = Reply("create", "", 400, "") /\ UNCHANGED <<chats, nextId>>
          ELSE IF ~session.present
            THEN resp' = Reply("create", "", 401, "") /\ UNCHANGED <<chats, nextId>>
          ELSE IF ~ok
            THEN resp' = StoreReply("create", uid, 500, "") /\ UNCHANGED <<chats, nextId>>
          ELSE /\ chats' = InsertOne(chats, nextId,
                    [_id |-> 0, sessionId |-> sid, userId |-> uid,
                     title |-> CreateTitle(body.title, body.messages),
                     messages |-> body.messages, model |-> body.model,
                     temperature |-> body.temperature, topP |-> body.topP,
                     maxTokens |-> body.maxTokens,
                     createdAt |-> now, updatedAt |-> now])
               /\ nextId' = nextId + 1
               /\ resp' = StoreReply("create", uid, 200, sid)
     /\ UNCHANGED <<users, now, req>>

(* the delete without its 401 return                                       *)
DeleteSession_NoAuthCheck(session, id, ok) ==
  LET uid == SessionsUserId(session, "__")
  IN /\ IF id = "" THEN resp' = Reply("delete", "", 400, id) /\ UNCHANGED chats
        ELSE IF ~ok
          THEN resp' = StoreReply("delete", uid, 500, id) /\ UNCHANGED chats
        ELSE /\ chats' = DeleteOne(chats, id, uid)
             /\ resp' = StoreReply("delete", uid, 204, id)
     /\ UNCHANGED <<users, nextId, now, req>>

(* DELETE /api/sessions?id=...                                             *)
DeleteSession(session, id, ok) ==
  LET uid == SessionsUserId(session, "__")
  IN /\ IF id = "" THEN resp' = Reply("delete", "", 400, id) /\ UNCHANGED chats
        ELSE IF ~session.present
          THEN resp' = Reply("delete", "", 401, id) /\ UNCHANGED chats
        ELSE IF ~ok
          THEN resp' = StoreReply("delete", uid, 500, id) /\ UNCHANGED chats
        ELSE /\ chats' = DeleteOne(chats, id, uid)
             /\ resp' = StoreReply("delete", uid, 204, id)
     /\ UNCHANGED <<users, nextId, now, req>>

(* the $set document of PATCH: updatedAt plus every truthy / non-null field *)
PatchDoc(body, d, t) ==
  [d EXCEPT
     !.updatedAt = t,
     !.title = IF "title" \in body.has /\ body.title # <<>> THEN body.title ELSE @,
     !.messages = IF "messages" \in body.has THEN body.messages ELSE @,
     !.model = IF "model" \in body.has /\ body.model # "" THEN body.model ELSE @,
     !.temperature = IF "temperature" \in body.has /\ body.temperature # Undefined
                       THEN body.temperature ELSE @,
     !.topP = IF "topP" \in body.has /\ body.topP # Undefined THEN body.topP ELSE @,
     !.maxTokens = IF "maxTokens" \in body.has /\ body.maxTokens # Undefined
                     THEN body.maxTokens ELSE @]

(* PATCH /api/sessions                                                     *)
PatchSession(session, body, ok) ==
  LET uid == SessionsUserId(session, "__")
  IN /\ IF ~body.json \/ body.sessionId = ""
          THEN resp' = Reply("patch", "", 400, body.sessionId) /\ UNCHANGED chats
        ELSE IF ~session.present
          THEN resp' = Reply("patch", "", 401, body.sessionId) /\ UNCHANGED chats
        ELSE IF ~ok
          THEN resp' = StoreReply("patch", uid, 500, body.sessionId) /\ UNCHANGED chats
        ELSE /\ chats' = UpdateFirst(chats, body.sessionId, uid,
                                     [k \in 1..Len(chats) |-> PatchDoc(body, chats[k], now)])
             /\ resp' = StoreReply("patch", uid, 204, body.sessionId)
     /\ UNCHANGED <<users, nextId, now, req>>

-----------------------------------------------------------------------------
(* Registration                                                            *)

MinPassword == 6

(* body.email?.toLowerCase().trim(); <<>> when the field is missing        *)
NormEmail(body) == IF body.hasEmail THEN Trim(LowerText(body.email)) ELSE <<>>

EmailTaken(col, email) == \E i \in 1..Len(col) : col[i].email = email

(* the lookup made with the email as sent                                  *)
Register_RawEmail(body, ok) ==
  /\ IF ~body.json
       THEN resp' = Reply("register", "", 400, "") /\ UNCHANGED users
     ELSE IF \/ NormEmail(body) = <<>>
             \/ ~body.hasPassword \/ body.password = <<>>
             \/ Len(body.password) < MinPassword
       THEN resp' = Reply("register", "", 400, "") /\ UNCHANGED users
     ELSE IF ~ok
       THEN resp' = StoreReply("register", "", 500, "") /\ UNCHANGED users
     ELSE IF EmailTaken(users, body.email)
       THEN resp' = StoreReply("register", "", 409, "") /\ UNCHANGED users
     ELSE /\ users' = Append(users, [userId |-> Len(users) + 1,
                                     email |-> body.email,
                                     passwordHash |-> [hash |-> body.password],
                                     createdAt |-> now, updatedAt |-> now])
          /\ resp' = StoreReply("register", "", 201, "")
  /\ UNCHANGED <<chats, nextId, now, req>>

(* POST /api/register                                                      *)
Register(body, ok) ==
  /\ IF ~body.json
       THEN resp' = Reply("register", "", 400, "") /\ UNCHANGED users
     ELSE IF \/ NormEmail(body) = <<>>
             \/ ~body.hasPassword \/ body.password = <<>>
             \/ Len(body.password) < MinPassword
       THEN resp' = Reply("register", "", 400, "") /\ UNCHANGED users
     ELSE IF ~ok
       THEN resp' = StoreReply("register", "", 500, "") /\ UNCHANGED users
     ELSE IF EmailTaken(users, NormEmail(body))
       THEN resp' = StoreReply("register", "", 409, "") /\ UNCHANGED users
     ELSE /\ users' = Append(users, [userId |-> Len(users) + 1,
                                     email |-> NormEmail(body),
                                     passwordHash |-> [hash |-> body.password],
                                     createdAt |-> now, updatedAt |-> now])
          /\ resp' = StoreReply("register", "", 201, "")
  /\ UNCHANGED <<chats, nextId, now, req>>

-----------------------------------------------------------------------------
(* Inputs                                                                  *)

Cfg1 == [model |-> "m1", temperature |-> 0, topP |-> 1, maxTokens |-> Undefined]
Cfg2 == [model |-> "m2", temperature |-> 1, topP |-> 0, maxTokens |-> 2]

ChatBody(msgs, c, sid) ==
  [json |-> TRUE, isArray |-> TRUE, messages |-> msgs, model |-> c.model,
   temperature |-> c.temperature, topP |-> c.topP, maxTokens |-> c.maxTokens,
   sessionId |-> sid]

(* a body that is not JSON, one whose messages is not an array, one with no model *)
BadJsonBody == [ChatBody(<<>>, Cfg1, "") EXCEPT !.json = FALSE]
NotArrayBody == [ChatBody(<<>>, Cfg1, "s1") EXCEPT !.isArray = FALSE]
NoModelBody == [ChatBody(<<Sys, U1>>, Cfg1, "s1") EXCEPT !.model = ""]
InvalidBodies == {BadJsonBody, NotArrayBody, NoModelBody}

Fragments == {<<>>, <<"a">>}
ErrMsgs == {<<>>, <<"e">>}

RelayMsgs == {<<Sys, U1>>, <<Sys, U1, A1, U2>>}
RelayBodies ==
  InvalidBodies \cup
  {ChatBody(msgs, Cfg1, sid) : msgs \in RelayMsgs, sid \in {"", "s1"}}
RelaySessions == {NoSession, AuthSession("u1")}

-----------------------------------------------------------------------------
(* The chat component of one browser tab                                   *)

(* one call of sendMessage: where it is (no call, awaiting fetch, in the   *)
(* read loop, returned at the sentinel, fallen out of the loop, ended by a *)
(* rejected promise or an abort), its fullText, and how much of the        *)
(* response body it has read                                               *)
NoRun == [phase |-> "none", fullText |-> <<>>, pos |-> 0]

(* useState initial values; session is useSession()'s data, abortRef names *)
(* the request the current AbortController belongs to (0: none), sends     *)
(* counts the requests issued                                              *)
IdleUi(session) ==
  [session |-> session,
   messages |-> <<Sys>>,
   streaming |-> FALSE,
   pending |-> FALSE,
   activeSessionId |-> "",
   saving |-> FALSE,
   saveMessages |-> <<>>,
   abortRef |-> 0,
   run |-> [r \in Slots |-> NoRun],
   sends |-> 0]

-----------------------------------------------------------------------------
(* The store client module and the registration requests in flight         *)

(* lib/db.ts after the module is loaded: uri set or not, client and        *)
(* clientPromise null (0); promises holds the state of the promise of each *)
(* MongoClient.connect call made, and the client a connect yields bears    *)
(* its number; call is where each caller of getClient is, returned the     *)
(* clients handed out, usersIndex whether the unique index on users.email  *)
(* has been asked for and whether it exists                                *)
DbCallers == {"getDb", "chatsCollection", "usersCollection"}

IdleCall == [at |-> "idle", promise |-> 0, got |-> 0, via |-> ""]

IdleDb(hasUri) ==
  [uri |-> hasUri, client |-> 0, clientPromise |-> 0, promises |-> <<>>,
   call |-> [k \in DbCallers |-> IdleCall],
   returned |-> {},
   usersIndex |-> "none"]

(* one POST /api/register: where it is, its normalised email and its reply *)
IdleReg == [pc |-> "idle", email |-> <<>>, password |-> <<>>, status |-> 0]

-----------------------------------------------------------------------------
(* Specifications                                                          *)

Init ==
  /\ chats = <<>>
  /\ users = <<>>
  /\ nextId = 1
  /\ now = 0
  /\ req = [r \in Slots |-> IdleReq]
  /\ resp = NoResp
  /\ ui = IdleUi(NoSession)
  /\ db = IdleDb(TRUE)
  /\ reg = [r \in Slots |-> IdleReg]

(* repeated turns on one session grow its transcript without limit: a push *)
(* is taken only while the transcript is below MaxStored                   *)
Room(r) == CanPush(chats, req[r].sessionId, req[r].userId)

(* the steps of one request after its body has been read                   *)
ChatTurn(r, frags, errs, oks) ==
  \/ \E ok \in oks : PreFind(r, ok)
  \/ \E ok \in oks : PreInsert(r, ok)
  \/ \E ok \in oks : (ok => Room(r)) /\ PreUpdate(r, ok)
  \/ \E ok \in BOOLEAN : Invoke(r, ok)
  \/ \E text \in frags : StreamChunk(r, text)
  \/ StreamEnd(r)
  \/ \E msg \in errs : StreamFail(r, msg)
  \/ ClientAbort(r)
  \/ \E ok \in oks : PostConn(r, ok)
  \/ \E ok \in oks : (ok => Room(r)) /\ PostWrite(r, ok)

(* the steps of a request whose store calls and upstream call succeed and  *)
(* whose caller reads to the end                                           *)
NormalTurn(r, frags) ==
  \/ PreFind(r, TRUE)
  \/ PreInsert(r, TRUE)
  \/ Room(r) /\ PreUpdate(r, TRUE)
  \/ Invoke(r, TRUE)
  \/ \E text \in frags : StreamChunk(r, text)
  \/ StreamEnd(r)
  \/ PostConn(r, TRUE)
  \/ Room(r) /\ PostWrite(r, TRUE)

ChatSteps(r, frags, errs) ==
  \/ ChatTurn(r, frags, errs, BOOLEAN)
  \/ Recycle(r)

(* chat requests served one after another, against an unreliable store     *)
Solo == {1}

Next ==
  \/ \E r \in Solo, body \in RelayBodies : ChatPost(r, body) /\ UNCHANGED <<ui, db, reg>>
  \/ \E r \in Solo, session \in RelaySessions : ChatAuth(r, session) /\ UNCHANGED <<ui, db, reg>>
  \/ \E r \in Solo : ChatSteps(r, Fragments, ErrMsgs) /\ UNCHANGED <<ui, db, reg>>
  \/ Tick /\ UNCHANGED <<ui, db, reg>>

Spec == Init /\ [][Next]_vars

(* inputs of the session endpoints                                         *)
OneFragment == {<<"a">>}
OneError == {<<"e">>}

(* store calls of the chat route that all succeed                          *)
Reliable == {TRUE}

SessionIdsOf(col) == {col[i].sessionId : i \in 1..Len(col)}

(* ids a caller may name: a client-chosen id, the ids in the store, an id  *)
(* that never exists, and no id                                            *)
NamedIds == {"", "s1", "zz"} \cup SessionIdsOf(chats)

CreateBody(title, msgs, c) ==
  [json |-> TRUE, title |-> title, messages |-> msgs, model |-> c.model,
   temperature |-> c.temperature, topP |-> c.topP, maxTokens |-> c.maxTokens]

CreateBodies ==
  {CreateBody(<<>>, <<Sys, U1>>, Cfg1),
   [CreateBody(<<>>, <<>>, Cfg1) EXCEPT !.model = ""]}

PatchBody(sid, has, title, msgs, c) ==
  [json |-> TRUE, sessionId |-> sid, has |-> has, title |-> title,
   messages |-> msgs, model |-> c.model, temperature |-> c.temperature,
   topP |-> c.topP, maxTokens |-> c.maxTokens]

PatchBodies ==
  {PatchBody(sid, {"title"}, <<"T">>, <<>>, Cfg1) : sid \in NamedIds}

PageParams == {Absent, Param(<<"2">>)}
PageSizeParams == {Absent}
QueryParams == {Absent, Param(<<"H">>)}

SessionBodies == {ChatBody(<<Sys, U1>>, Cfg1, sid) : sid \in NamedIds \ {"", "zz"}}
RaceBodies == {ChatBody(<<Sys, U1>>, Cfg1, "s1")}

SessionOps ==
  \/ \E session \in Sessions, pageP \in PageParams, pageSizeP \in PageSizeParams,
        qP \in QueryParams, ok \in BOOLEAN :
       ListSessions(session, pageP, pageSizeP, qP, ok)
  \/ \E session \in Sessions, id \in NamedIds, ok \in BOOLEAN :
       FetchOne(session, id, ok)
  \/ \E session \in Sessions, body \in CreateBodies, ok \in BOOLEAN :
       CreateSession(session, body, ok)
  \/ \E session \in Sessions, id \in NamedIds, ok \in BOOLEAN :
       DeleteSession(session, id, ok)
  \/ \E session \in Sessions, body \in PatchBodies, ok \in BOOLEAN :
       PatchSession(session, body, ok)

(* no chat request is in flight and the last response has been returned   *)
Quiet == resp = NoResp /\ \A r \in Slots : req[r].pc \in {"idle", "done"}

(* the response of a session endpoint is returned to its caller            *)
Deliver ==
  /\ resp # NoResp
  /\ resp' = NoResp
  /\ UNCHANGED <<users, chats, nextId, now, req>>

(* the session endpoints called by two owners and by anonymous callers,    *)
(* one operation after another, around one chat request                    *)
NextSessions ==
  \/ Quiet /\ SessionOps /\ UNCHANGED <<ui, db, reg>>
  \/ Deliver /\ UNCHANGED <<ui, db, reg>>
  \/ resp = NoResp /\ \E r \in Solo, body \in SessionBodies : ChatPost(r, body) /\ UNCHANGED <<ui, db, reg>>
  \/ \E r \in Solo, session \in AuthSessions : ChatAuth(r, session) /\ UNCHANGED <<ui, db, reg>>
  \/ \E r \in Solo : NormalTurn(r, OneFragment) /\ UNCHANGED <<ui, db, reg>>

SpecSessions == Init /\ [][NextSessions]_vars

(* two chat requests of one owner in flight at once on the same fresh      *)
(* session id, interleaved with the owner's deletes of that id             *)
NextRace ==
  \/ \E r \in Slots, body \in RaceBodies : ChatPost(r, body) /\ UNCHANGED <<ui, db, reg>>
  \/ \E r \in Slots : ChatAuth(r, AuthSession("u1")) /\ UNCHANGED <<ui, db, reg>>
  \/ \E r \in Slots : ChatTurn(r, OneFragment, OneError, BOOLEAN) /\ UNCHANGED <<ui, db, reg>>
  \/ \E ok \in BOOLEAN : DeleteSession(AuthSession("u1"), "s1", ok) /\ UNCHANGED <<ui, db, reg>>

SpecRace == Init /\ [][NextRace]_vars
Cfg0 == [model |-> "", temperature |-> 0, topP |-> 0, maxTokens |-> 0]

(* PATCH bodies of the owner: each field alone with its empty or zero      *)
(* value, all fields with non-empty values, and no field at all            *)
PatchVariety ==
  UNION {{PatchBody(sid, {"title"}, <<>>, <<>>, Cfg1),
          PatchBody(sid, {"model"}, <<>>, <<>>, Cfg0),
          PatchBody(sid, {"messages"}, <<>>, <<>>, Cfg1),
          PatchBody(sid, {"temperature", "topP", "maxTokens"}, <<>>, <<>>, Cfg0),
          PatchBody(sid, {"title", "messages", "model", "temperature", "topP",
                          "maxTokens"}, <<"T">>, <<U2>>, Cfg2),
          PatchBody(sid, {}, <<>>, <<>>, Cfg1)} :
         sid \in SessionIdsOf(chats) \cup {"zz"}}

(* one owner creates sessions and patches them                             *)
NextPatch ==
  \/ \E body \in CreateBodies, ok \in BOOLEAN :
       CreateSession(AuthSession("u1"), body, ok) /\ UNCHANGED <<ui, db, reg>>
  \/ \E body \in PatchVariety, ok \in BOOLEAN :
       PatchSession(AuthSession("u1"), body, ok) /\ UNCHANGED <<ui, db, reg>>
  \/ Tick /\ UNCHANGED <<ui, db, reg>>

SpecPatch == Init /\ [][NextPatch]_vars

RegisterBody(hasEmail, email, hasPassword, password) ==
  [json |-> TRUE, hasEmail |-> hasEmail, email |-> email,
   hasPassword |-> hasPassword, password |-> password]

Secret1 == <<"s", "e", "c", "r", "e", "t">>
Short == <<"s", "e", "c", "r", "e">>

(* emails in upper and lower case, padded, blank, and missing              *)
Emails == {<<"a">>, <<"A">>, <<" ", "a", " ">>, <<"b">>, <<" ">>, <<>>}

RegisterBodies ==
  {RegisterBody(TRUE, e, TRUE, pw) : e \in Emails, pw \in {Secret1, Short}}
  \cup {RegisterBody(FALSE, <<>>, TRUE, Secret1),
        RegisterBody(TRUE, <<"a">>, FALSE, <<>>),
        [RegisterBody(FALSE, <<>>, FALSE, <<>>) EXCEPT !.json = FALSE]}

(* registration requests served one after another                          *)
NextRegister ==
  \/ \E body \in RegisterBodies, ok \in BOOLEAN : Register(body, ok) /\ UNCHANGED <<ui, db, reg>>
  \/ Tick /\ UNCHANGED <<ui, db, reg>>

SpecRegister == Init /\ [][NextRegister]_vars

(* page and pageSize as sent: absent, empty, in range, below range, above  *)
(* range, zero, negative, and text that is not a number                    *)
PageVariety ==
  {Absent, Param(<<>>), Param(<<"2">>), Param(<<"0">>), Param(<<"-", "1">>),
   Param(<<"x">>)}
PageSizeVariety ==
  {Absent, Param(<<>>), Param(<<"7">>), Param(<<"3">>), Param(<<"9", "9">>),
   Param(<<"0">>), Param(<<"-", "4">>), Param(<<"x">>)}

(* one owner creates sessions and lists them                               *)
NextList ==
  \/ \E body \in CreateBodies, ok \in BOOLEAN :
       CreateSession(AuthSession("u1"), body, ok) /\ UNCHANGED <<ui, db, reg>>
  \/ \E pageP \in PageVariety, pageSizeP \in PageSizeVariety, ok \in BOOLEAN :
       ListSessions(AuthSession("u1"), pageP, pageSizeP, Absent, ok) /\ UNCHANGED <<ui, db, reg>>
  \/ Tick /\ UNCHANGED <<ui, db, reg>>

SpecList == Init /\ [][NextList]_vars

(* message sequences with and without a user message, sent with either    *)
(* generation config on one session id                                     *)
EdgeMsgs == {<<>>, <<Sys>>, <<Sys, U1>>}
EdgeBodies == {ChatBody(msgs, c, "s1") : msgs \in EdgeMsgs, c \in {Cfg1, Cfg2}}

(* chat requests of one owner on one session, one after another, and the   *)
(* client reading their output                                             *)
NextEdge ==
  \/ \E r \in Solo, body \in EdgeBodies : ChatPost(r, body) /\ UNCHANGED <<ui, db, reg>>
  \/ \E r \in Solo : ChatAuth(r, AuthSession("u1")) /\ UNCHANGED <<ui, db, reg>>
  \/ \E r \in Solo : ChatTurn(r, OneFragment, OneError, Reliable) /\ UNCHANGED <<ui, db, reg>>
  \/ \E r \in Solo : ClientDone(r) /\ UNCHANGED <<ui, db, reg>>
  \/ \E r \in Solo : Recycle(r) /\ UNCHANGED <<ui, db, reg>>

SpecEdge == Init /\ [][NextEdge]_vars

-----------------------------------------------------------------------------
(* Properties of the relay                                                 *)

RECURSIVE ConcatTokens(_)
ConcatTokens(out) ==
  IF out = <<>> THEN <<>>
  ELSE (IF Head(out).type = "token" THEN Head(out).data ELSE <<>>)
       \o ConcatTokens(Tail(out))

CountType(out, t) == Cardinality({i \in 1..Len(out) : out[i].type = t})

(* C1: a validated request whose upstream stream ends normally has emitted *)
(* only token envelopes, then one meta envelope whose token count is the   *)
(* number of token envelopes, then the sentinel, and nothing afterwards;   *)
(* no error envelope.                                                      *)
C1_NormalCompletion ==
  \A r \in Slots :
    req[r].upEnd = "end" =>
      LET out == req[r].out
          n == Len(out)
      IN /\ req[r].status = 200
         /\ n >= 2
         /\ out[n] = DoneEnv
         /\ out[n - 1].type = "meta"
         /\ out[n - 1].tokens = n - 2
         /\ \A i \in 1..(n - 2) : out[i].type = "token" /\ out[i].data # <<>>
         /\ CountType(out, "error") = 0

C1_Witness ==
  \E r \in Slots :
    /\ req[r].pc = "done" /\ req[r].upEnd = "end"
    /\ Len(req[r].upLog) = 2 /\ req[r].tokenCount = 1

C10_InvokeFailure ==
  \A r \in Slots :
    /\ req[r].upCalls <= 1
    /\ (req[r].upCalls = 1 /\ req[r].upEnd = "" /\ req[r].pc = "done") =>
         /\ req[r].status = 500
         /\ req[r].out = <<>>
         /\ req[r].upLog = <<>>
    /\ req[r].status = 500 => req[r].upCalls = 1 /\ req[r].pc = "done"

C10_Witness ==
  \E r \in Slots :
    req[r].pc = "done" /\ req[r].upCalls = 1 /\ req[r].status = 500

(* what the relay emits for an upstream behaviour, whatever the store does *)
ExpectedOut(q) ==
  TokenEnvs(q.upLog)
  \o (IF q.upEnd = "end"
        THEN <<MetaEnv(Len(TokenEnvs(q.upLog)), 0), DoneEnv>>
      ELSE IF q.upEnd = "error"
        THEN <<ErrorEnv(IF q.upErr # <<>> THEN q.upErr ELSE StreamErrorText)>>
      ELSE <<>>)

NoElapsed(out) == [i \in 1..Len(out) |-> [out[i] EXCEPT !.elapsedMs = 0]]

(* C5: for every validated request the status and the envelopes emitted    *)
(* are determined by the upstream service alone: a failing store operation *)
(* yields no error envelope, suppresses neither meta nor sentinel, never   *)
(* gives a 500 and never keeps the request from invoking the upstream.     *)
C5_StoreNeverAffectsStream ==
  \A r \in Slots :
    LET q == req[r]
    IN (q.pc # "idle" /\ q.status # 400) =>
         /\ NoElapsed(q.out) = ExpectedOut(q)
         /\ q.status = 500 => q.upCalls = 1 /\ q.upEnd = "" /\ q.upLog = <<>>
         /\ q.upCalls = 0 => q.status = 0
         /\ q.pc = "done" => q.upCalls = 1 /\ q.status \in {200, 500}
         /\ q.upEnd # "" => q.status = 200

C5_Witness ==
  \E r \in Slots :
    /\ req[r].pc = "done" /\ req[r].storeErrs = 2
    /\ req[r].upEnd = "end" /\ req[r].status = 200 /\ req[r].tokenCount = 1

BodyRejected(q) == ~q.json \/ ~q.isArray \/ q.model = ""

C6_RejectedEarly ==
  \A r \in Slots :
    (req[r].pc # "idle" /\ BodyRejected(req[r])) =>
      /\ req[r].status = 400
      /\ req[r].pc = "done"
      /\ req[r].authCalls = 0
      /\ req[r].storeOps = 0
      /\ req[r].upCalls = 0
      /\ req[r].out = <<>>
      /\ ~req[r].closed

C6_StoreUntouched ==
  \A r \in Slots :
    (req[r].pc = "idle" /\ req'[r].pc # "idle" /\ BodyRejected(req'[r])) =>
      chats' = chats /\ nextId' = nextId

(* C6: a chat request whose body is not JSON, whose messages is not an     *)
(* array or whose model is absent gets status 400 before the identity is   *)
(* resolved, before any store operation and before the upstream service is *)
(* invoked; no stream is opened and the store is unchanged.                *)
C6_ValidationFirst == []C6_RejectedEarly /\ [][C6_StoreUntouched]_vars

C6_Witness ==
  \E r \in Slots :
    req[r].status = 400 /\ req[r].json /\ req[r].isArray /\ req[r].model = ""

(* C3: a turn of an authenticated caller that found no document for        *)
(* (sessionId, ownerId), completed normally and met no store failure       *)
(* leaves exactly one document for the pair, whose messages are the        *)
(* request's messages followed by one assistant message holding the        *)
(* concatenation of the data of the token envelopes emitted.               *)
C3_FreshSessionTurn ==
  \A r \in Slots :
    LET q == req[r]
        M == MatchIdx(chats, q.sessionId, q.userId)
    IN (q.pc = "done" /\ q.upEnd = "end" /\ Persisting(q)
        /\ ~q.existing /\ q.storeErrs = 0) =>
         /\ Cardinality(M) = 1
         /\ \A k \in M :
              chats[k].messages =
                q.messages \o <<Msg("assistant", ConcatTokens(q.out))>>

C3_Witness ==
  \E r \in Slots :
    /\ req[r].pc = "done" /\ req[r].upEnd = "end" /\ Persisting(req[r])
    /\ ~req[r].existing /\ req[r].storeErrs = 0
    /\ req[r].tokenCount = 2
    /\ Len(chats) = 1

StoredMessages(col, sid, uid) ==
  col[FirstIdx(MatchIdx(col, sid, uid))].messages

(* C4: the pre-step on an existing session appends the latest user message *)
(* only if it is not already the last stored message.                      *)
C4_PreStepStep ==
  \A r \in Slots :
    (/\ req[r].pc = "pre_update" /\ req'[r].pc = "invoke"
     /\ req'[r].storeErrs = req[r].storeErrs
     /\ MatchIdx(chats, req[r].sessionId, req[r].userId) # {}) =>
      LET old == StoredMessages(chats, req[r].sessionId, req[r].userId)
          new == StoredMessages(chats', req[r].sessionId, req[r].userId)
          lu == LastUser(req[r].messages)
      IN new = IF old # <<>> /\ old[Len(old)] = lu THEN old ELSE Append(old, lu)

C4_NoDuplicateUser == [][C4_PreStepStep]_vars

-----------------------------------------------------------------------------
(* Properties of the session endpoints                                     *)

C7_OwnItemsOnly ==
  (resp.op \in {"list", "fetch"} /\ resp.status = 200) =>
    /\ \A i \in 1..Len(resp.items) : resp.items[i].owner = resp.userId
    /\ resp.op = "fetch" =>
         Len(resp.items) = 1 /\ resp.items[1].sessionId = resp.sid

C7_ForeignIsNotFound ==
  (/\ resp'.op = "fetch" /\ resp' # resp
   /\ resp'.userId # "" /\ resp'.status # 500
   /\ MatchIdx(chats, resp'.sid, resp'.userId) = {}) =>
    resp'.status = 404 /\ resp'.items = <<>>

(* C7: every listing response (any page, pageSize, q) and every fetch-one  *)
(* response shows only documents stored under the caller's identity, and   *)
(* fetch-one of an id with no document under the caller, such as one that  *)
(* exists only under another owner, answers 404.                           *)
C7_ReadIsolation == []C7_OwnItemsOnly /\ [][C7_ForeignIsNotFound]_vars

C7_Witness ==
  /\ resp.op = "list" /\ resp.status = 200 /\ Len(resp.items) = 1
  /\ Len(chats) = 2
  /\ chats[1].userId # chats[2].userId
  /\ chats[1].sessionId = chats[2].sessionId

(* the documents of every owner but the actor are kept as they are, and    *)
(* every document that is new or changed belongs to the actor              *)
OnlyOwn(actor) ==
  /\ \A i \in 1..Len(chats) :
       chats[i].userId # actor => \E j \in 1..Len(chats') : chats'[j] = chats[i]
  /\ \A j \in 1..Len(chats') :
       (\A i \in 1..Len(chats) : chats[i] # chats'[j]) => chats'[j].userId = actor

C8_Step ==
  /\ \A r \in Slots : req'[r] # req[r] => OnlyOwn(req[r].userId)
  /\ (req' = req /\ resp'.op # "none") => OnlyOwn(resp'.userId)

(* C8: no step of a chat turn, PATCH or DELETE issued by one owner changes *)
(* or removes a document of another owner, also when it names a sessionId  *)
(* stored under the other owner; what it creates or updates is its own.    *)
C8_WriteIsolation == [][C8_Step]_vars

C8_Witness ==
  /\ Len(chats) = 2
  /\ chats[1].userId = "u1" /\ chats[2].userId = "u2"
  /\ chats[1].sessionId = chats[2].sessionId
  /\ req[1].pc = "done" /\ req[1].userId = "u2" /\ req[1].upEnd = "end"
  /\ req[1].storeErrs = 0
  /\ Len(chats[2].messages) = 3

(* C9: a delete by an authenticated caller answers 204 whatever is stored  *)
(* under the id, and a repeated delete of the same id leaves the store as  *)
(* the first delete left it.                                               *)
C9_DeleteIdempotent ==
  /\ (resp.op = "delete" /\ resp.userId # "" /\ resp.status # 500) =>
       resp.status = 204
  /\ \A uid \in Users, id \in SessionIdsOf(chats) :
       DeleteOne(DeleteOne(chats, id, uid), id, uid) = DeleteOne(chats, id, uid)

-----------------------------------------------------------------------------
(* Properties of the transcript reconciler                                 *)

(* some stored document has gained a trailing assistant message            *)
AssistantAdded ==
  \E i \in 1..Len(chats) :
    /\ i <= Len(chats')
    /\ Len(chats'[i].messages) > Len(chats[i].messages)
    /\ chats'[i].messages[Len(chats'[i].messages)].role = "assistant"

C11_Step ==
  \A r \in Slots :
    req'[r] # req[r] =>
      /\ AssistantAdded =>
           /\ req[r].upEnd = "end"
           /\ req[r].out # <<>>
           /\ req[r].out[Len(req[r].out)] = DoneEnv
      /\ (req'[r].upEnd \in {"error", "abort"} \/ req'[r].status = 500) =>
           chats' = chats

(* C11: a step appends an assistant message to a stored document only for  *)
(* a request whose upstream stream was exhausted normally and whose        *)
(* sentinel is already enqueued; the step at which the upstream fails, is  *)
(* not invoked, or the caller aborts before the sentinel writes nothing    *)
(* and removes nothing, so the pre-step's user message stays.              *)
C11_AssistantOnlyAfterSentinel == [][C11_Step]_vars

C11_Witness ==
  \E r \in Slots :
    /\ req[r].pc = "done" /\ req[r].upEnd = "abort" /\ req[r].cancelled
    /\ Len(req[r].out) >= 1
    /\ req[r].storeErrs = 0 /\ ~req[r].existing
    /\ Len(chats) = 1
    /\ chats[1].messages = req[r].messages

IsPrefix(a, b) == Len(a) <= Len(b) /\ \A i \in 1..Len(a) : b[i] = a[i]

(* position of a request in the route's control flow                       *)
Rank(pc) ==
  CASE pc = "idle" -> 0 [] pc = "auth" -> 1 [] pc = "pre_find" -> 2
    [] pc = "pre_insert" -> 3 [] pc = "pre_update" -> 3 [] pc = "invoke" -> 4
    [] pc = "stream" -> 5 [] pc = "post_conn" -> 6 [] pc = "post_write" -> 7
    [] pc = "done" -> 8

(* the messages a step has appended to the document at position i         *)
Added(i) == Len(chats'[i].messages) - Len(chats[i].messages)

C12_Step ==
  \A r \in Slots :
    req'[r] # req[r] =>
      /\ Len(chats') >= Len(chats)
      /\ \A i \in 1..Len(chats) :
           /\ chats'[i]._id = chats[i]._id
           /\ IsPrefix(chats[i].messages, chats'[i].messages)
           /\ Added(i) <= 1
           /\ Added(i) = 1 =>
                LET m == chats'[i].messages[Len(chats'[i].messages)]
                IN \/ req[r].pc = "pre_update" /\ m.role = "user"
                   \/ req[r].pc = "post_write" /\ m.role = "assistant"
      /\ req'[r].pc # "idle" =>
           \/ Rank(req'[r].pc) > Rank(req[r].pc)
           \/ req'[r].pc = req[r].pc /\ chats' = chats

(* C12: every step of a chat request keeps every stored document and keeps *)
(* its stored messages as a prefix of the messages afterwards; it appends  *)
(* at most one message, a user message in the pre-step's update or an      *)
(* assistant message in the post-step, and a request passes each of these  *)
(* two steps at most once, the update first.                               *)
C12_AppendOnly == [][C12_Step]_vars

C12_Witness ==
  \E r \in Slots :
    /\ req[r].existing /\ req[r].pc = "invoke" /\ req[r].storeErrs = 0
    /\ req[r].messages = <<Sys, U1, A1, U2>>
    /\ Len(chats) = 1
    /\ chats[1].messages = <<Sys, U1, U2>>

-----------------------------------------------------------------------------
(* Properties of the session endpoints, continued                          *)

(* the document after a PATCH that overwrites updatedAt and every supplied *)
(* field with the supplied value                                           *)
Supplied(body, d, t) ==
  [d EXCEPT
     !.updatedAt = t,
     !.title = IF "title" \in body.has THEN body.title ELSE @,
     !.messages = IF "messages" \in body.has THEN body.messages ELSE @,
     !.model = IF "model" \in body.has THEN body.model ELSE @,
     !.temperature = IF "temperature" \in body.has THEN body.temperature ELSE @,
     !.topP = IF "topP" \in body.has THEN body.topP ELSE @,
     !.maxTokens = IF "maxTokens" \in body.has THEN body.maxTokens ELSE @]

C13_Step ==
  \A body \in PatchVariety :
    PatchSession(AuthSession("u1"), body, TRUE) =>
      chats' = UpdateFirst(chats, body.sessionId, "u1",
                           [k \in 1..Len(chats) |-> Supplied(body, chats[k], now)])

(* C13: a PATCH by the owner sets updatedAt and every supplied field among *)
(* title, messages, model, temperature, topP, maxTokens to the supplied    *)
(* value, an empty title, an empty model, an empty message list and 0      *)
(* included, and leaves every other field as it was.                       *)
C13_PatchOverwritesSupplied == [][C13_Step]_vars

(* the users collection with one more user holding the given email         *)
OneMoreUser(email) ==
  /\ Len(users') = Len(users) + 1
  /\ \A i \in 1..Len(users) : users'[i] = users[i]
  /\ users'[Len(users')].email = email

WellFormed(body) ==
  body.hasEmail /\ body.email # <<>> /\ body.hasPassword
    /\ Len(body.password) >= MinPassword

C14_StepAsSent ==
  \A body \in RegisterBodies :
    (body.json /\ (\E ok \in BOOLEAN : Register(body, ok)) /\ resp'.status # 500) =>
      IF WellFormed(body)
        THEN IF ~EmailTaken(users, NormEmail(body))
               THEN resp'.status = 201 /\ OneMoreUser(NormEmail(body))
               ELSE resp'.status = 409 /\ users' = users
        ELSE resp'.status = 400 /\ users' = users

C14_Step ==
  \A body \in RegisterBodies :
    (body.json /\ (\E ok \in BOOLEAN : Register(body, ok)) /\ resp'.status # 500) =>
      IF NormEmail(body) # <<>> /\ body.hasPassword
           /\ Len(body.password) >= MinPassword
        THEN IF ~EmailTaken(users, NormEmail(body))
               THEN resp'.status = 201 /\ OneMoreUser(NormEmail(body))
               ELSE resp'.status = 409 /\ users' = users
        ELSE resp'.status = 400 /\ users' = users

Untouched == chats' = chats /\ users' = users /\ resp'.storeCalls = 0

C15_Step ==
  /\ resp'.op = "list" =>
       \A pageP \in PageParams, pageSizeP \in PageSizeParams, qP \in QueryParams,
          ok \in BOOLEAN :
         ListSessions(NoSession, pageP, pageSizeP, qP, ok) =>
           Untouched /\ resp'.status = 401
  /\ resp'.op = "fetch" =>
       \A id \in NamedIds, ok \in BOOLEAN :
         FetchOne(NoSession, id, ok) =>
           /\ Untouched /\ resp'.status \in {400, 401}
           /\ id # "" => resp'.status = 401
  /\ resp'.op = "create" =>
       \A body \in CreateBodies, ok \in BOOLEAN :
         CreateSession(NoSession, body, ok) =>
           /\ Untouched /\ resp'.status \in {400, 401}
           /\ (body.json /\ body.model # "") => resp'.status = 401
  /\ resp'.op = "delete" =>
       \A id \in NamedIds, ok \in BOOLEAN :
         DeleteSession(NoSession, id, ok) =>
           /\ Untouched /\ resp'.status \in {400, 401}
           /\ id # "" => resp'.status = 401
  /\ resp'.op = "patch" =>
       \A body \in PatchBodies, ok \in BOOLEAN :
         PatchSession(NoSession, body, ok) =>
           /\ Untouched /\ resp'.status \in {400, 401}
           /\ (body.json /\ body.sessionId # "") => resp'.status = 401

(* C15: a call without a session to list, create, fetch-one, PATCH or      *)
(* DELETE makes no store call and changes no collection; it answers 401    *)
(* when its parameters or body are well-formed and 400 otherwise.          *)
C15_AnonymousNeverReachesStore == [][C15_Step]_vars

C15_Witness ==
  /\ resp.op = "delete" /\ resp.status = 401 /\ resp.storeCalls = 0
  /\ resp.sid \in SessionIdsOf(chats)

(* C16: whatever the page and pageSize parameters of a listing request    *)
(* are, the page size it uses is an integer from 5 to 50, the page it uses *)
(* is an integer of at least 1, and the totalPages of a successful         *)
(* response is an integer of at least 1.                                   *)
C16_PagingInRange ==
  (resp.op = "list" /\ resp.userId # "") =>
    /\ ~resp.pageSize.nan
    /\ resp.pageSize.v >= MinPageSize /\ resp.pageSize.v <= MaxPageSize
    /\ ~resp.page.nan /\ resp.page.v >= 1
    /\ resp.status = 200 => ~resp.totalPages.nan /\ resp.totalPages.v >= 1

-----------------------------------------------------------------------------
(* Properties of the relay, continued                                      *)

(* C17: a chat request whose messages is an empty list is answered 400     *)
(* like one without a model: the identity is not resolved, no store call   *)
(* is made, so no document is created, and the upstream is not invoked.    *)
C17_EmptyMessagesRejected ==
  \A r \in Slots :
    (req[r].pc # "idle" /\ req[r].json /\ req[r].isArray
       /\ req[r].messages = <<>>) =>
      /\ req[r].pc = "done" => req[r].status = 400
      /\ req[r].upCalls = 0
      /\ req[r].storeOps = 0

(* C20: once the pre-step of a request that found a document for           *)
(* (sessionId, ownerId) has run without a store failure, the document's    *)
(* updatedAt is the time of the pre-step and its model, temperature, topP  *)
(* and maxTokens are the request's, whatever the messages sent.            *)
C20_ExistingRefreshed ==
  \A r \in Slots :
    (req[r].pc = "invoke" /\ req[r].existing /\ req[r].storeErrs = 0) =>
      LET d == chats[FirstIdx(MatchIdx(chats, req[r].sessionId, req[r].userId))]
      IN /\ d.updatedAt = req[r].nowIso
         /\ d.model = req[r].model
         /\ d.temperature = req[r].temperature
         /\ d.topP = req[r].topP
         /\ d.maxTokens = req[r].maxTokens

C18_Phases ==
  \A r \in Slots :
    LET q == req[r]
    IN /\ q.pc \in {"pre_find", "pre_insert", "pre_update"} =>
            q.upCalls = 0 /\ q.upLog = <<>> /\ q.out = <<>> /\ ~q.closed
       /\ q.upCalls > 0 => q.pc \notin {"idle", "auth", "pre_find", "pre_insert", "pre_update"}
       /\ q.pc \in {"post_conn", "post_write"} =>
            /\ q.upEnd = "end"
            /\ q.out # <<>> /\ q.out[Len(q.out)] = DoneEnv
            /\ ~q.closed
       /\ q.closed => q.pc = "done"

C18_OneAtATime ==
  \A r \in Slots :
    (req'[r] # req[r] /\ req'[r].pc # "idle") =>
      \/ Rank(req'[r].pc) > Rank(req[r].pc)
      \/ req'[r].pc = req[r].pc /\ req'[r].storeOps = req[r].storeOps
           /\ req'[r].upCalls = req[r].upCalls

C19_Step ==
  \A r \in Slots :
    (/\ ~req[r].clientDone /\ req'[r].clientDone
     /\ Persisting(req[r]) /\ HasLastUser(req[r].messages)) =>
      /\ FindOne(chats, req[r].sessionId, req[r].userId)
      /\ LET m == StoredMessages(chats, req[r].sessionId, req[r].userId)
         IN /\ m # <<>>
            /\ m[Len(m)] = Msg("assistant", req[r].finalText)
            /\ \E i \in 1..Len(m) : m[i] = LastUser(req[r].messages)

(* C19: when the client reads the sentinel of a turn that carries an       *)
(* identity, a sessionId and a user message, the stored session already    *)
(* ends with the assistant message of that turn and holds its user         *)
(* message.                                                                *)
C19_PersistedBeforeSentinelSeen == [][C19_Step]_vars

-----------------------------------------------------------------------------
(* Properties of overlapping requests                                      *)

C21_Step ==
  \A r \in Slots :
    (req'[r] # req[r] /\ req[r].pc \in {"invoke", "stream", "post_conn", "post_write"}) =>
      /\ Len(chats') = Len(chats)
      /\ MatchIdx(chats, req[r].sessionId, req[r].userId) = {} => chats' = chats

(* C21: once its pre-step is over, no step of a chat turn adds a document, *)
(* and a step taken while no document exists for (sessionId, ownerId),     *)
(* the post-step's update included, leaves the store as it is: a session   *)
(* deleted while the reply streams stays deleted.                          *)
C21_NoResurrection == [][C21_Step]_vars

C21_Witness ==
  \E r \in Slots :
    /\ req[r].pc = "done" /\ req[r].upEnd = "end"
    /\ req[r].storeOps = 3 /\ req[r].storeErrs = 0
    /\ resp.op = "delete" /\ resp.status = 204
    /\ chats = <<>>
    /\ \A o \in Slots \ {r} : req[o].pc = "idle"

-----------------------------------------------------------------------------
(* Two turns on one stored session                                         *)

(* the transcript the session is saved with before the turns               *)
PriorTranscript == <<Sys>>

SavedId == "g1"

(* two tabs of the owner send different first messages to the saved session *)
AppendBodies ==
  {ChatBody(PriorTranscript \o <<U1>>, Cfg1, SavedId),
   ChatBody(PriorTranscript \o <<U2>>, Cfg1, SavedId)}

(* the steps of a request whose session exists: the pre-step finds it and  *)
(* pushes, the post-step pushes; the pushes may fail, the stream may fail  *)
AppendTurn(r, frags, errs) ==
  \/ PreFind(r, TRUE)
  \/ \E ok \in BOOLEAN : PreUpdate(r, ok)
  \/ Invoke(r, TRUE)
  \/ \E text \in frags : StreamChunk(r, text)
  \/ StreamEnd(r)
  \/ \E msg \in errs : StreamFail(r, msg)
  \/ PostConn(r, TRUE)
  \/ \E ok \in BOOLEAN : PostWrite(r, ok)

NextAppend ==
  \/ chats = <<>> /\ CreateSession(AuthSession("u1"), CreateBody(<<>>, PriorTranscript, Cfg1), TRUE) /\ UNCHANGED <<ui, db, reg>>
  \/ \E r \in Slots, body \in AppendBodies : chats # <<>> /\ ChatPost(r, body) /\ UNCHANGED <<ui, db, reg>>
  \/ \E r \in Slots : ChatAuth(r, AuthSession("u1")) /\ UNCHANGED <<ui, db, reg>>
  \/ \E r \in Slots : AppendTurn(r, OneFragment, OneError) /\ UNCHANGED <<ui, db, reg>>

SpecAppend == Init /\ [][NextAppend]_vars

CountIn(seq, x) == Cardinality({i \in 1..Len(seq) : seq[i] = x})

SameBag(s, t) ==
  /\ Len(s) = Len(t)
  /\ \A i \in 1..Len(s) : CountIn(s, s[i]) = CountIn(t, s[i])

(* both requests ran to the end of a normally completed stream and none of *)
(* their store calls failed                                                *)
BothComplete ==
  \A r \in Slots :
    /\ req[r].pc = "done" /\ req[r].upEnd = "end"
    /\ req[r].status = 200 /\ req[r].storeErrs = 0

(* what the two turns append: each one's user message and its reply        *)
BothAppends ==
  <<LastUser(req[1].messages), Msg("assistant", req[1].finalText),
    LastUser(req[2].messages), Msg("assistant", req[2].finalText)>>

(* C22: after two concurrent turns on the same stored session of one owner *)
(* have both completed normally, the stored messages are the previous      *)
(* transcript followed by the two user messages and the two assistant      *)
(* messages in some order: four appended messages, none lost.              *)
C22_BothAppended ==
  BothComplete =>
    /\ Len(chats) = 1
    /\ LET m == chats[1].messages
           k == Len(PriorTranscript)
       IN /\ Len(m) = k + 4
          /\ SubSeq(m, 1, k) = PriorTranscript
          /\ SameBag(SubSeq(m, k + 1, k + 4), BothAppends)

(* both pre-steps ran before either post-step: the two user messages come  *)
(* first, then the two replies                                             *)
C22_Witness ==
  /\ BothComplete
  /\ Len(chats) = 1
  /\ Len(chats[1].messages) = Len(PriorTranscript) + 4
  /\ LET m == chats[1].messages
         k == Len(PriorTranscript)
     IN /\ {m[k + 1], m[k + 2]} = {U1, U2}
        /\ m[k + 3].role = "assistant" /\ m[k + 4].role = "assistant"
        /\ m[k + 3] # m[k + 4]

-----------------------------------------------------------------------------
(* The response body on the wire and the component's read loop             *)

(* JSON.stringify of an envelope, as the symbols that matter to a reader:  *)
(* the braces, the type, and the data                                      *)
Json(env) ==
  CASE env.type = "token" -> <<"{", "token", ":">> \o env.data \o <<"}">>
    [] env.type = "meta" -> <<"{", "meta", ":", ToString(env.tokens), "}">>
    [] OTHER -> <<"{", "error", ":">> \o env.data \o <<"}">>

DoneText == <<"[", "DONE", "]">>

(* one enqueue: `data: <json>\n`, or 'data: [DONE]\n'                       *)
WireLine(env) ==
  <<"data:", " ">> \o (IF env.type = "done" THEN DoneText ELSE Json(env)) \o <<"\n">>

RECURSIVE Wire(_)
Wire(out) == IF out = <<>> THEN <<>> ELSE WireLine(Head(out)) \o Wire(Tail(out))

(* chunk.split(/\n/).filter(Boolean)                                       *)
RECURSIVE SplitLines(_, _)
SplitLines(chunk, cur) ==
  IF chunk = <<>> THEN (IF cur = <<>> THEN <<>> ELSE <<cur>>)
  ELSE IF Head(chunk) = "\n"
    THEN (IF cur = <<>> THEN <<>> ELSE <<cur>>) \o SplitLines(Tail(chunk), <<>>)
    ELSE SplitLines(Tail(chunk), Append(cur, Head(chunk)))

(* line.startsWith('data:')                                                *)
StartsWithData(line) == line # <<>> /\ line[1] = "data:"

(* line.replace(/^data: /, '')                                             *)
StripData(line) ==
  IF Len(line) >= 2 /\ line[1] = "data:" /\ line[2] = " "
    THEN SubSeq(line, 3, Len(line)) ELSE line

(* JSON.parse succeeds on a whole envelope only                            *)
Parses(json) ==
  /\ Len(json) >= 4
  /\ json[1] = "{" /\ json[2] \in {"token", "meta", "error"} /\ json[3] = ":"
  /\ json[Len(json)] = "}"
  /\ \A i \in 4..(Len(json) - 1) : json[i] \notin {"{", "}", ":", "data:", "[", "]"}

Parsed(json) ==
  [type |-> json[2], data |-> SubSeq(json, 4, Len(json) - 1)]

(* '[Error: ' + envelope.data + ']' and '[Request failed]'                 *)
ErrorNote(data) == <<"[Error: ">> \o data \o <<"]">>
RequestFailed == <<"[Request failed]">>

(* for (const line of lines) { ... }: st is what the loop body reads and   *)
(* writes; the sentinel returns from sendMessage                           *)
RECURSIVE ReadLines(_, _)
ReadLines(lines, st) ==
  IF lines = <<>> \/ st.returned THEN st
  ELSE LET line == Head(lines)
           json == StripData(line)
       IN IF ~StartsWithData(line) THEN ReadLines(Tail(lines), st)
          ELSE IF json = DoneText
            THEN [st EXCEPT !.messages = Append(@, Msg("assistant", st.fullText)),
                            !.streaming = FALSE,
                            !.pending = FALSE,
                            !.returned = TRUE]
          ELSE IF ~Parses(json) THEN ReadLines(Tail(lines), st)
          ELSE LET envelope == Parsed(json)
               IN ReadLines(Tail(lines),
                    CASE envelope.type = "token" ->
                           [st EXCEPT !.fullText = @ \o envelope.data]
                      [] envelope.type = "error" ->
                           [st EXCEPT !.pending = FALSE,
                                      !.streaming = FALSE,
                                      !.messages = Append(@, Msg("assistant",
                                                     ErrorNote(envelope.data)))]
                      [] OTHER -> st)

Reading == {"fetch", "read"}
Ended == {"returned", "drained", "failed", "aborted"}

(* 'temp-' + Date.now()                                                    *)
TempId(t) == "temp-" \o ToString(t)

(* generateUUID(): called only while activeSessionId is null               *)
GenerateUUID == "c1"

MaxSends == 2

(* sendMessage up to and including the fetch: the request reaches the route *)
SendMessage(r, userInput) ==
  LET sid == IF ui.activeSessionId # "" THEN ui.activeSessionId
             ELSE IF ui.session.present THEN GenerateUUID ELSE ""
      newMessages == Append(ui.messages, Msg("user", userInput))
  IN /\ Trim(userInput) # <<>> /\ ~ui.streaming
     /\ ui.sends < MaxSends
     /\ ui.run[r].phase = "none"
     /\ ChatPost(r, ChatBody(newMessages, Cfg1, sid))
     /\ ui' = [ui EXCEPT !.activeSessionId = sid,
                         !.messages = newMessages,
                         !.pending = TRUE,
                         !.streaming = TRUE,
                         !.abortRef = r,
                         !.run[r] = [NoRun EXCEPT !.phase = "fetch"],
                         !.sends = @ + 1]
     /\ UNCHANGED <<db, reg>>

(* the catch block for an error that is not an AbortError                  *)
Caught(r) ==
  [ui EXCEPT !.run[r].phase = "failed",
             !.streaming = FALSE,
             !.pending = FALSE,
             !.messages = Append(@, Msg("assistant", RequestFailed))]

(* await fetch(...) resolves; if (!res.ok || !res.body) throw              *)
FetchResolved(r) ==
  /\ ui.run[r].phase = "fetch"
  /\ req[r].status # 0
  /\ ui' = IF req[r].status = 200 THEN [ui EXCEPT !.run[r].phase = "read"]
           ELSE Caught(r)
  /\ UNCHANGED <<chats, users, nextId, now, req, resp, db, reg>>

(* fetch or reader.read() rejects with a network error                     *)
NetFail(r) ==
  /\ ui.run[r].phase \in Reading
  /\ ui' = Caught(r)
  /\ UNCHANGED <<chats, users, nextId, now, req, resp, db, reg>>

(* reader.read() yields the next n symbols of the body as one chunk        *)
ReadChunk(r, n) ==
  LET run == ui.run[r]
      wire == Wire(req[r].out)
      chunk == SubSeq(wire, run.pos + 1, run.pos + n)
      st == ReadLines(SplitLines(chunk, <<>>),
                      [messages |-> ui.messages, streaming |-> ui.streaming,
                       pending |-> ui.pending, fullText |-> run.fullText,
                       returned |-> FALSE])
  IN /\ run.phase = "read"
     /\ n >= 1 /\ run.pos + n <= Len(wire)
     /\ ui' = [ui EXCEPT !.messages = st.messages,
                         !.streaming = st.streaming,
                         !.pending = st.pending,
                         !.run[r] = [phase |-> IF st.returned THEN "returned" ELSE "read",
                                     fullText |-> st.fullText,
                                     pos |-> run.pos + n]]
     /\ UNCHANGED <<chats, users, nextId, now, req, resp, db, reg>>

(* reader.read() yields done: break, and sendMessage ends                  *)
ReadDone(r) ==
  /\ ui.run[r].phase = "read"
  /\ ui.run[r].pos = Len(Wire(req[r].out))
  /\ req[r].closed
  /\ ui' = [ui EXCEPT !.run[r].phase = "drained"]
  /\ UNCHANGED <<chats, users, nextId, now, req, resp, db, reg>>

(* abortRef.current?.abort(): the awaiting call rejects with an AbortError *)
(* and sendMessage returns from its catch block                            *)
Abort(runs, k) ==
  IF k # 0 /\ runs[k].phase \in Reading THEN [runs EXCEPT ![k].phase = "aborted"]
  ELSE runs

(* the Stop button, rendered while streaming                               *)
Stop ==
  /\ ui.streaming
  /\ ui' = [ui EXCEPT !.run = Abort(@, ui.abortRef), !.streaming = FALSE]
  /\ UNCHANGED <<chats, users, nextId, now, req, resp, db, reg>>

(* the Reset button                                                        *)
Reset ==
  /\ ui' = [ui EXCEPT !.run = Abort(@, ui.abortRef),
                      !.messages = SubSeq(@, 1, 1),
                      !.pending = FALSE]
  /\ UNCHANGED <<chats, users, nextId, now, req, resp, db, reg>>

(* the Save button: createSession up to and including its fetch            *)
CreateStart ==
  /\ ~ui.saving
  /\ resp = NoResp
  /\ ui' = [ui EXCEPT !.activeSessionId = TempId(now),
                      !.saving = TRUE,
                      !.saveMessages = ui.messages]
  /\ UNCHANGED <<chats, users, nextId, now, req, resp, db, reg>>

(* the sessions route serves the Save                                      *)
CreateServe(ok) ==
  /\ ui.saving
  /\ resp = NoResp
  /\ CreateSession(ui.session,
                   CreateBody(ChatTitle(ui.saveMessages), ui.saveMessages, Cfg1), ok)
  /\ UNCHANGED <<ui, db, reg>>

(* if (res.ok) setActiveSessionId(sessionId); finally setSaving(false)     *)
CreateDone ==
  /\ ui.saving
  /\ resp.op = "create"
  /\ ui' = [ui EXCEPT !.activeSessionId = IF resp.status = 200 THEN resp.sid ELSE @,
                      !.saving = FALSE]
  /\ resp' = NoResp
  /\ UNCHANGED <<chats, users, nextId, now, req, db, reg>>

(* both ends of a request are over; the slot carries the next request      *)
ClientRecycle(r) ==
  /\ ui.run[r].phase \in Ended
  /\ Recycle(r)
  /\ ui' = [ui EXCEPT !.run[r] = NoRun]
  /\ UNCHANGED <<db, reg>>

(* the route's steps for a request of the component: a store that is full  *)
(* fails the insert, nothing else fails in the store                       *)
ServedTurn(r, frags, errs) ==
  \/ PreFind(r, TRUE)
  \/ \E ok \in BOOLEAN : PreInsert(r, ok)
  \/ PreUpdate(r, TRUE)
  \/ \E ok \in BOOLEAN : Invoke(r, ok)
  \/ \E text \in frags : StreamChunk(r, text)
  \/ StreamEnd(r)
  \/ \E msg \in errs : StreamFail(r, msg)
  \/ PostConn(r, TRUE)
  \/ PostWrite(r, TRUE)

(* the chunks a transport makes that never cuts a line: one or more whole  *)
(* lines                                                                   *)
LineEnds(r) ==
  LET wire == Wire(req[r].out)
  IN {n \in 1..(Len(wire) - ui.run[r].pos) : wire[ui.run[r].pos + n] = "\n"}

(* what the user types: a message, or only white space                     *)
UserInputs == {<<"h", "i">>, <<" ">>}

(* the component mounted with a signed-in user's session, or with any      *)
InitSigned ==
  /\ chats = <<>>
  /\ users = <<>>
  /\ nextId = 1
  /\ now = 0
  /\ req = [r \in Slots |-> IdleReq]
  /\ resp = NoResp
  /\ ui = IdleUi(AuthSession("u1"))
  /\ db = IdleDb(TRUE)
  /\ reg = [r \in Slots |-> IdleReg]

InitClient ==
  /\ chats = <<>>
  /\ users = <<>>
  /\ nextId = 1
  /\ now = 0
  /\ req = [r \in Slots |-> IdleReq]
  /\ resp = NoResp
  /\ ui \in {IdleUi(NoSession), IdleUi(AuthSession("u1"))}
  /\ db = IdleDb(TRUE)
  /\ reg = [r \in Slots |-> IdleReg]

(* the route serves the component's requests                               *)
Served(R) ==
  \/ \E r \in R : ChatAuth(r, ui.session) /\ UNCHANGED <<ui, db, reg>>
  \/ \E r \in R : ServedTurn(r, OneFragment, OneError) /\ UNCHANGED <<ui, db, reg>>

(* the route learns that the component gave a request up                   *)
Dropped(R) ==
  \E r \in R : ui.run[r].phase \in {"aborted", "failed"} /\ ClientAbort(r) /\ UNCHANGED <<ui, db, reg>>

(* the response reaches the component, whole lines at a time               *)
Delivered(R) ==
  \/ \E r \in R : FetchResolved(r)
  \/ \E r \in R : \E n \in LineEnds(r) : ReadChunk(r, n)
  \/ \E r \in R : ReadDone(r)

(* one tab whose requests may overlap: each request has its own connection *)
NextClient ==
  \/ \E r \in Slots, userInput \in UserInputs : r = ui.sends + 1 /\ SendMessage(r, userInput)
  \/ Stop
  \/ Reset
  \/ Served(Slots)
  \/ Dropped(Slots)
  \/ Delivered(Slots)

SpecClient == InitSigned /\ [][NextClient]_vars

(* C24: the chats collection holds at most one document per (sessionId,    *)
(* userId) pair; two concurrent first turns with the same fresh sessionId  *)
(* of one owner do not both insert.                                        *)
C24_OneDocPerSession ==
  \A i, j \in 1..Len(chats) :
    (chats[i].sessionId = chats[j].sessionId /\ chats[i].userId = chats[j].userId)
      => i = j

(* one tab whose requests follow one another, with every way a request    *)
(* can end: the route runs each request to its end and the browser hands   *)
(* over what has arrived; the user and the network promise nothing         *)
NextLive ==
  \/ \E r \in Solo, userInput \in UserInputs : SendMessage(r, userInput)
  \/ Stop
  \/ Reset
  \/ \E r \in Solo : NetFail(r)
  \/ Served(Solo)
  \/ Dropped(Solo)
  \/ Delivered(Solo)
  \/ \E r \in Solo : ClientRecycle(r)

SpecLive ==
  /\ InitClient
  /\ [][NextLive]_vars
  /\ WF_vars(Served(Solo))
  /\ WF_vars(Delivered(Solo))

(* the chunks of a transport that cuts the body anywhere                   *)
AnyCut(r) == 1..(Len(Wire(req[r].out)) - ui.run[r].pos)

(* one request whose response body reaches the component in chunks of any  *)
(* size                                                                    *)
NextWire ==
  \/ \E r \in Solo, userInput \in UserInputs : SendMessage(r, userInput)
  \/ Served(Solo)
  \/ \E r \in Solo : FetchResolved(r)
  \/ \E r \in Solo : \E n \in AnyCut(r) : ReadChunk(r, n)
  \/ \E r \in Solo : ReadDone(r)

SpecWire == InitSigned /\ [][NextWire]_vars

(* one signed-in tab whose user saves the conversation, any number of      *)
(* times, around one chat request                                          *)
NextSave ==
  \/ \E r \in Solo, userInput \in UserInputs : SendMessage(r, userInput)
  \/ CreateStart
  \/ \E ok \in BOOLEAN : CreateServe(ok)
  \/ CreateDone
  \/ Served(Solo)
  \/ Delivered(Solo)

SpecSave == InitSigned /\ [][NextSave]_vars

(* one signed-in tab whose user only sends messages, one turn after the    *)
(* other                                                                   *)
NextTurns ==
  \/ \E r \in Solo, userInput \in UserInputs : SendMessage(r, userInput)
  \/ Served(Solo)
  \/ Delivered(Solo)
  \/ \E r \in Solo : ClientRecycle(r)

SpecTurns == InitSigned /\ [][NextTurns]_vars

-----------------------------------------------------------------------------
(* POST /api/register, one step per await                                  *)

(* body = await req.json(); email and password validated                   *)
RegisterPost(r, body) ==
  /\ reg[r].pc = "idle"
  /\ reg' = [reg EXCEPT ![r] =
       IF \/ ~body.json
          \/ NormEmail(body) = <<>>
          \/ ~body.hasPassword \/ body.password = <<>>
          \/ Len(body.password) < MinPassword
         THEN [IdleReg EXCEPT !.pc = "done", !.status = 400]
         ELSE [IdleReg EXCEPT !.pc = "lookup", !.email = NormEmail(body),
                              !.password = body.password]]
  /\ UNCHANGED <<chats, users, nextId, now, req, resp, ui, db>>

(* col = await usersCollection(), which fires createIndex and does not     *)
(* await it; exists = await col.findOne({ email })                         *)
RegisterFind(r, ok) ==
  /\ reg[r].pc = "lookup"
  /\ IF ~ok
       THEN reg' = [reg EXCEPT ![r].pc = "done", ![r].status = 500] /\ UNCHANGED db
       ELSE /\ reg' = IF EmailTaken(users, reg[r].email)
                        THEN [reg EXCEPT ![r].pc = "done", ![r].status = 409]
                        ELSE [reg EXCEPT ![r].pc = "insert"]
            /\ db' = [db EXCEPT !.usersIndex = IF @ = "none" THEN "asked" ELSE @]
  /\ UNCHANGED <<chats, users, nextId, now, req, resp, ui>>

(* the index build asked for by createIndex({ email: 1 }, { unique: true }) *)
(* completes; over duplicate emails it fails, and the failure is swallowed *)
IndexBuilt ==
  /\ db.usersIndex = "asked"
  /\ \A i, j \in 1..Len(users) : users[i].email = users[j].email => i = j
  /\ db' = [db EXCEPT !.usersIndex = "ready"]
  /\ UNCHANGED <<chats, users, nextId, now, req, resp, ui, reg>>

(* await col.insertOne(user): with the unique index in place a second      *)
(* document with the email is refused, and the catch answers 500           *)
RegisterInsert(r, ok) ==
  /\ reg[r].pc = "insert"
  /\ IF ~ok \/ (db.usersIndex = "ready" /\ EmailTaken(users, reg[r].email))
       THEN reg' = [reg EXCEPT ![r].pc = "done", ![r].status = 500] /\ UNCHANGED users
       ELSE /\ users' = Append(users, [userId |-> Len(users) + 1,
                                       email |-> reg[r].email,
                                       passwordHash |-> [hash |-> reg[r].password],
                                       createdAt |-> now, updatedAt |-> now])
            /\ reg' = [reg EXCEPT ![r].pc = "done", ![r].status = 201]
  /\ UNCHANGED <<chats, nextId, now, req, resp, ui, db>>

(* sign-up forms sent at the same time: the same address in two spellings, *)
(* another address, and a password that is too short                       *)
RaceEmails == {<<"a">>, <<"A">>, <<"b">>}
RaceRegisterBodies ==
  {RegisterBody(TRUE, e, TRUE, Secret1) : e \in RaceEmails}
  \cup {RegisterBody(TRUE, <<"a">>, TRUE, Short)}

(* two registration requests in flight at once against a store that answers *)
NextRegRace ==
  \/ \E r \in Slots, body \in RaceRegisterBodies : RegisterPost(r, body)
  \/ \E r \in Slots : RegisterFind(r, TRUE)
  \/ IndexBuilt
  \/ \E r \in Slots : RegisterInsert(r, TRUE)

SpecRegRace == Init /\ [][NextRegRace]_vars

-----------------------------------------------------------------------------
(* lib/db.ts: getClient                                                    *)

(* every call connects while client is null, whether or not a connect is   *)
(* already under way                                                       *)
GetClient_NoPromiseCheck(k) ==
  /\ db.call[k].at = "idle"
  /\ db' =
       IF ~db.uri THEN [db EXCEPT !.call[k].at = "rejected"]
       ELSE IF db.client # 0
         THEN [db EXCEPT !.call[k] = [at |-> "resolved", promise |-> 0,
                                      got |-> db.client, via |-> "client"],
                         !.returned = @ \cup {db.client}]
       ELSE [db EXCEPT !.promises = Append(@, "pending"),
                       !.clientPromise = Len(db.promises) + 1,
                       !.call[k] = [IdleCall EXCEPT !.at = "waiting",
                                                    !.promise = Len(db.promises) + 1]]
  /\ UNCHANGED <<chats, users, nextId, now, req, resp, ui, reg>>

(* getClient up to its return: throw without uri, the client if there is   *)
(* one, else the promise of the one connect, started if none is under way  *)
GetClient(k) ==
  /\ db.call[k].at = "idle"
  /\ db' =
       IF ~db.uri THEN [db EXCEPT !.call[k].at = "rejected"]
       ELSE IF db.client # 0
         THEN [db EXCEPT !.call[k] = [at |-> "resolved", promise |-> 0,
                                      got |-> db.client, via |-> "client"],
                         !.returned = @ \cup {db.client}]
       ELSE IF db.clientPromise = 0
         THEN [db EXCEPT !.promises = Append(@, "pending"),
                         !.clientPromise = Len(db.promises) + 1,
                         !.call[k] = [IdleCall EXCEPT !.at = "waiting",
                                                      !.promise = Len(db.promises) + 1]]
       ELSE [db EXCEPT !.call[k] = [IdleCall EXCEPT !.at = "waiting",
                                                    !.promise = db.clientPromise]]
  /\ UNCHANGED <<chats, users, nextId, now, req, resp, ui, reg>>

(* MongoClient.connect resolves: .then(c => { client = c; return c })      *)
ConnectResolved(p) ==
  /\ p \in 1..Len(db.promises) /\ db.promises[p] = "pending"
  /\ db' = [db EXCEPT !.promises[p] = "resolved", !.client = p]
  /\ UNCHANGED <<chats, users, nextId, now, req, resp, ui, reg>>

(* MongoClient.connect rejects: clientPromise stays the rejected promise   *)
ConnectRejected(p) ==
  /\ p \in 1..Len(db.promises) /\ db.promises[p] = "pending"
  /\ db' = [db EXCEPT !.promises[p] = "rejected"]
  /\ UNCHANGED <<chats, users, nextId, now, req, resp, ui, reg>>

(* the caller's await on the returned promise settles                      *)
Settled(k) ==
  LET p == db.call[k].promise
  IN /\ db.call[k].at = "waiting"
     /\ db.promises[p] # "pending"
     /\ db' = IF db.promises[p] = "resolved"
                THEN [db EXCEPT !.call[k] = [at |-> "resolved", promise |-> p,
                                             got |-> p, via |-> "promise"],
                                !.returned = @ \cup {p}]
                ELSE [db EXCEPT !.call[k].at = "rejected"]
     /\ UNCHANGED <<chats, users, nextId, now, req, resp, ui, reg>>

(* the caller is done with the call and may call again                     *)
CallOver(k) ==
  /\ db.call[k].at \in {"resolved", "rejected"}
  /\ db' = [db EXCEPT !.call[k] = IdleCall]
  /\ UNCHANGED <<chats, users, nextId, now, req, resp, ui, reg>>

(* the module loaded with or without MONGODB_URI                           *)
InitDb ==
  /\ chats = <<>>
  /\ users = <<>>
  /\ nextId = 1
  /\ now = 0
  /\ req = [r \in Slots |-> IdleReq]
  /\ resp = NoResp
  /\ ui = IdleUi(NoSession)
  /\ db \in {IdleDb(TRUE), IdleDb(FALSE)}
  /\ reg = [r \in Slots |-> IdleReg]

(* callers of getClient, one after another and at the same time            *)
NextDb ==
  \/ \E k \in DbCallers : GetClient(k)
  \/ \E p \in 1..Len(db.promises) : ConnectResolved(p)
  \/ \E p \in 1..Len(db.promises) : ConnectRejected(p)
  \/ \E k \in DbCallers : Settled(k)
  \/ \E k \in DbCallers : CallOver(k)

SpecDb == InitDb /\ [][NextDb]_vars

-----------------------------------------------------------------------------
(* Properties of the chat component                                        *)

(* the calls of sendMessage that await their fetch or are in the read loop *)
Outstanding == {r \in Slots : ui.run[r].phase \in Reading}

(* C23: the component has at most one outstanding chat stream: no request  *)
(* is issued while the response of an earlier one is still being read.     *)
C23_OneStream == Cardinality(Outstanding) <= 1

(* C25: once a request has been sent, the streaming flag eventually        *)
(* returns to false, however the stream ends: sentinel, error envelope,    *)
(* network failure, close without sentinel, Stop, Reset.                   *)
C25_StreamingEnds == ui.streaming ~> ~ui.streaming

(* C26: however the transport cuts the body into chunks, the sentinel is   *)
(* recognised and the assistant text committed on it is the concatenation, *)
(* in order, of the data of the token envelopes the route emitted.         *)
C26_AnySplit ==
  \A r \in Solo :
    (req[r].upEnd = "end" /\ ui.run[r].phase \in {"returned", "drained"}) =>
      /\ ui.run[r].phase = "returned"
      /\ ui.messages[Len(ui.messages)] = Msg("assistant", ConcatTokens(req[r].out))

TempIds == {TempId(t) : t \in 0..MaxClock}

(* C27: the sessionId sent with a chat request is a client-generated UUID  *)
(* or an id returned by the create endpoint, never the placeholder set by  *)
(* Save; no session document is stored under a placeholder id.             *)
C27_NoPlaceholderSent ==
  /\ \A r \in Slots : req[r].sessionId \notin TempIds
  /\ \A i \in 1..Len(chats) : chats[i].sessionId \notin TempIds

(* C28: for one signed-in client starting from a fresh session id, at the  *)
(* end of each turn (normal completion, in-band error envelope, or 500)    *)
(* the stored messages of the session equal the client's local messages.   *)
C28_StoredEqualsLocal ==
  \A r \in Solo :
    (req[r].pc = "done" /\ ui.run[r].phase \in Ended /\ req[r].storeErrs = 0) =>
      \E i \in 1..Len(chats) :
        /\ chats[i].sessionId = ui.activeSessionId
        /\ chats[i].userId = req[r].userId
        /\ chats[i].messages = ui.messages

(* C29: of two concurrent registrations of the same normalised email, in   *)
(* every interleaving of their lookups and inserts, at most one user       *)
(* document with that email is stored, one request answers 201 and the     *)
(* other 409.                                                              *)
C29_OneRegistration ==
  (/\ \A r \in Slots : reg[r].pc = "done" /\ reg[r].status # 400
   /\ reg[1].email = reg[2].email) =>
     /\ Cardinality({i \in 1..Len(users) : users[i].email = reg[1].email}) <= 1
     /\ {reg[1].status, reg[2].status} = {201, 409}

====
